---------------------------- MODULE Spec2Model ----------------------------
(***************************************************************************)
(* A model of kdl-go: the value model (document.go), the node tree and its *)
(* builders (node.go, helpers.go), the event-driven tree builder           *)
(* (parser.go), the tree flattener (emitter.go) and the batch marshal      *)
(* helpers.  Nodes live in a heap (a sequence of node records, a pointer   *)
(* is an index, 0 is nil) so that pointers, parents and in-place updates   *)
(* are what they are in the Go code.                                       *)
(***************************************************************************)
EXTENDS Integers, Sequences, FiniteSets, TLC

VARIABLES
    heap,      \* every Node allocated so far; *Node is an index, 0 is nil
    ev,        \* Parser.ev: the one event of lookahead (NoEvent: nil)
    stack,     \* the active nextNode calls, innermost last
    doc,       \* ParseDocument's doc.Nodes while it runs
    pstate,    \* where ParseDocument is: "idle", "doc", "done"
    result,    \* what ParseDocument returned: [err, doc]
    pulled,    \* the events the event source has delivered, in order
    ret,       \* the last call of the node API: its arguments and what it returned
    written,   \* per node, the property writes made to it: the keys in the order
               \* of their first write, and the last value written to each key
    edoc,      \* the Document (its Nodes) EmitDocument was called with
    estack,    \* the active emitNode calls, innermost last
    epos,      \* EmitDocument's loop index into edoc
    estate,    \* where EmitDocument is: "idle", "running", "done"
    eresult,   \* the error EmitDocument returned
    sink,      \* the primitives issued to the ckdl emitter, with their outcome
    round,     \* a round trip: the tree it began with, and the text emitted for it
    batch,     \* a MarshalNodes / MarshalChildren call, and the Document it is on
    unmarshal  \* an UnmarshalAll call: its nodes, its loop, and what it returned

parserVars == <<ev, stack, doc, pstate, result, pulled>>
emitterVars == <<edoc, estack, epos, estate, eresult, sink>>
vars ==
    <<heap, ev, stack, doc, pstate, result, pulled, ret, written,
      edoc, estack, epos, estate, eresult, sink, round, batch, unmarshal>>

----------------------------------------------------------------------------
(* Bounds of the model *)

\* The event source delivers at most this many events to one ParseDocument.
MaxEvents == 7

\* The largest argument index the node API is called with.
MaxIndex == 2

----------------------------------------------------------------------------
(* Strings.  Go compares strings byte-wise; Bytes gives the bytes of every  *)
(* string the model orders.                                                *)

Bytes ==
    [x |-> <<120>>, y |-> <<121>>, xy |-> <<120, 121>>]

RECURSIVE LexLess(_, _)
LexLess(s, t) ==
    IF t = <<>> THEN FALSE
    ELSE IF s = <<>> THEN TRUE
    ELSE IF Head(s) # Head(t) THEN Head(s) < Head(t)
    ELSE LexLess(Tail(s), Tail(t))

StrLess(a, b) == LexLess(Bytes[a], Bytes[b])

----------------------------------------------------------------------------
(* Values (document.go).  A *string is <<>> (nil) or <<s>>.  A number is a  *)
(* decimal: sign, digits of the mantissa (no leading zero, <<0>> for zero), *)
(* and a power of ten, so that no width is lost in the model.              *)

NoAnnot == <<>>

Num(neg, mag, exp) == [neg |-> neg, mag |-> mag, exp |-> exp]
Zero == Num(FALSE, <<0>>, 0)
IntNum(n) == Num(FALSE, <<n>>, 0)

MkValue(kind, ta, s, n, b) == [kind |-> kind, ta |-> ta, s |-> s, n |-> n, b |-> b]

NewString(s) == MkValue("String", NoAnnot, s, Zero, FALSE)
NewInteger(n) == MkValue("Integer", NoAnnot, "", n, FALSE)
NewFloat(n) == MkValue("Float", NoAnnot, "", n, FALSE)
NewBigInt(n) == MkValue("BigInt", NoAnnot, "", n, FALSE)
NewBigFloat(n) == MkValue("BigFloat", NoAnnot, "", n, FALSE)
NewBoolean(b) == MkValue("Boolean", NoAnnot, "", Zero, b)
NewNull == MkValue("Null", NoAnnot, "", Zero, FALSE)

withTypeAnnotation(v, ty) == [v EXCEPT !.ta = ty]

----------------------------------------------------------------------------
(* ckdl's kdl_value, as the event source delivers it and the sink takes it. *)
(* A string-encoded number carries its decimal literal: the number written, *)
(* and whether it is written as an integer (digits only).                   *)

Lit(num, isInt) == [num |-> num, isInt |-> isInt]
NoLit == Lit(Zero, TRUE)

CValue(type, numType, s, n, b, lit, ta) ==
    [type |-> type, numType |-> numType, s |-> s, n |-> n, b |-> b, lit |-> lit,
     ta |-> ta]

CNull(ta) == CValue("KDL_TYPE_NULL", "", "", Zero, FALSE, NoLit, ta)
CString(s) == CValue("KDL_TYPE_STRING", "", s, Zero, FALSE, NoLit, NoAnnot)
CInteger(n) == CValue("KDL_TYPE_NUMBER", "INTEGER", "", n, FALSE, NoLit, NoAnnot)
CFloat(n) == CValue("KDL_TYPE_NUMBER", "FLOATING_POINT", "", n, FALSE, NoLit, NoAnnot)
CStringEncoded(lit) ==
    CValue("KDL_TYPE_NUMBER", "STRING_ENCODED", "", Zero, FALSE, lit, NoAnnot)
CBoolean(b) == CValue("KDL_TYPE_BOOLEAN", "", "", Zero, b, NoLit, NoAnnot)

\* A decimal without trailing zeros in its mantissa: equal numbers, equal records.
RECURSIVE Normalize(_)
Normalize(x) ==
    IF Len(x.mag) > 1 /\ x.mag[Len(x.mag)] = 0
        THEN Normalize(Num(x.neg, SubSeq(x.mag, 1, Len(x.mag) - 1), x.exp + 1))
    ELSE IF x.mag = <<0>> THEN Zero
    ELSE x

\* The digits of an integer written with its zeros: mantissa, then exp zeros.
RECURSIVE Zeros(_)
Zeros(k) == IF k <= 0 THEN <<>> ELSE <<0>> \o Zeros(k - 1)
IntDigits(x) == Num(x.neg, IF x.mag = <<0>> THEN x.mag ELSE x.mag \o Zeros(x.exp), 0)

\* big.Int.SetString(s, 10): succeeds on an integer literal, with its value.
SetString(lit) == [ok |-> lit.isInt, value |-> IntDigits(lit.num)]

\* big.Float.Parse(s, 10) at the default precision of 64 bits, which holds every
\* literal of the model (at most 11 digits here) exactly.
Parse(lit) == Normalize(lit.num)

\* newKdlValue: the Go Value of a kdl_value.
newKdlValue(v) ==
    LET x == CASE v.type = "KDL_TYPE_NULL" -> NewNull
               [] v.type = "KDL_TYPE_STRING" -> NewString(v.s)
               [] v.type = "KDL_TYPE_BOOLEAN" -> NewBoolean(v.b)
               [] v.type = "KDL_TYPE_NUMBER" /\ v.numType = "INTEGER" -> NewInteger(v.n)
               [] v.type = "KDL_TYPE_NUMBER" /\ v.numType = "FLOATING_POINT" ->
                    NewFloat(v.n)
               [] v.type = "KDL_TYPE_NUMBER" /\ v.numType = "STRING_ENCODED" ->
                    IF SetString(v.lit).ok
                        THEN NewBigInt(SetString(v.lit).value)
                        ELSE NewBigFloat(Parse(v.lit))
    IN IF v.ta # NoAnnot THEN withTypeAnnotation(x, v.ta) ELSE x

----------------------------------------------------------------------------
(* Nodes (node.go) *)

Nil == 0

EmptyMap == [k \in {} |-> NewNull]

NodeRec(name, ta, parent) ==
    [Name |-> name, TypeAnnotation |-> ta, Arguments |-> <<>>,
     Properties |-> EmptyMap, PropertyOrder |-> <<>>, Children |-> <<>>,
     Parent |-> parent, EmitEmptyChildren |-> FALSE]

Contains(seq, x) == \E i \in 1..Len(seq) : seq[i] = x

MapPut(m, k, v) == [j \in DOMAIN m \cup {k} |-> IF j = k THEN v ELSE m[j]]

\* Errors: the message, and the sentinel the error wraps (fmt.Errorf's %w).
Err(msg, wraps) == [msg |-> msg, wraps |-> wraps]
NoErr == Err("", "")
ErrNotFound == "no such key"
IsNotFound(err) == err.wraps = ErrNotFound

\* What a Go function hands back: a typed value (the zero value of the type
\* when there is none), an error, and whether the call panicked instead.
GoVal(type, s, n, b) == [type |-> type, s |-> s, n |-> n, b |-> b]
ZeroVal == GoVal("", "", Zero, FALSE)
Return(val, err) == [val |-> val, err |-> err, panic |-> FALSE]
Panic == [val |-> ZeroVal, err |-> NoErr, panic |-> TRUE]

NewNode(name) == NodeRec(name, NoAnnot, Nil)

AddArgument(node, value) ==
    [node EXCEPT !.Arguments = Append(@, value)]

AddChild(node, child) ==
    [node EXCEPT !.Children = Append(@, child)]

\* A variant that moves a rewritten key to the end of the order.
AddPropertyMoving(node, key, value) ==
    [node EXCEPT !.PropertyOrder =
                     Append(SelectSeq(@, LAMBDA k : k # key), key),
                 !.Properties = MapPut(@, key, value)]

AddProperty(node, key, value) ==
    [node EXCEPT !.PropertyOrder = IF Contains(@, key) THEN @ ELSE Append(@, key),
                 !.Properties = MapPut(@, key, value)]

----------------------------------------------------------------------------
(* The accessors (helpers.go).  A key is a Go string or a Go int.          *)

StrKey(s) == [kind |-> "string", s |-> s, i |-> 0]
IntKey(i) == [kind |-> "int", s |-> "", i |-> i]

\* 2^63 - 1 and 2^63, in decimal digits.
MaxInt64Mag == <<9, 2, 2, 3, 3, 7, 2, 0, 3, 6, 8, 5, 4, 7, 7, 5, 8, 0, 7>>
MinInt64Mag == <<9, 2, 2, 3, 3, 7, 2, 0, 3, 6, 8, 5, 4, 7, 7, 5, 8, 0, 8>>

\* a <= b for two digit strings without leading zeros.
RECURSIVE DigitsLeq(_, _)
DigitsLeq(a, b) ==
    IF Len(a) # Len(b) THEN Len(a) < Len(b)
    ELSE IF a = <<>> THEN TRUE
    ELSE IF Head(a) # Head(b) THEN Head(a) < Head(b)
    ELSE DigitsLeq(Tail(a), Tail(b))

\* big.Int.IsInt64
IsInt64(x) == DigitsLeq(x.mag, IF x.neg THEN MinInt64Mag ELSE MaxInt64Mag)

AsString(v) ==
    IF v.kind = "String" THEN Return(GoVal("string", v.s, Zero, FALSE), NoErr)
    ELSE Return(ZeroVal, Err("value is not a string", ""))

\* A variant that hands out the low 64 bits without looking at the range.
AsInt64Unchecked(v) ==
    IF v.kind \in {"Integer", "BigInt"}
        THEN Return(GoVal("int64", "", v.n, FALSE), NoErr)
        ELSE Return(ZeroVal, Err("value is not an integer", ""))

AsInt64(v) ==
    CASE v.kind = "Integer" -> Return(GoVal("int64", "", v.n, FALSE), NoErr)
      [] v.kind = "BigInt" ->
            IF ~IsInt64(v.n)
                THEN Return(ZeroVal, Err("big.Int value cannot be represented as int64", ""))
                ELSE Return(GoVal("int64", "", v.n, FALSE), NoErr)
      [] OTHER -> Return(ZeroVal, Err("value is not an integer", ""))

AsBigInt(v) ==
    CASE v.kind = "BigInt" -> Return(GoVal("*big.Int", "", v.n, FALSE), NoErr)
      [] v.kind = "Integer" -> Return(GoVal("*big.Int", "", v.n, FALSE), NoErr)
      [] OTHER -> Return(ZeroVal, Err("value is not a big.Int", ""))

\* digits + 1, as a digit string.
RECURSIVE Increment(_)
Increment(d) ==
    IF d = <<>> THEN <<1>>
    ELSE IF d[Len(d)] < 9 THEN [d EXCEPT ![Len(d)] = @ + 1]
    ELSE Increment(SubSeq(d, 1, Len(d) - 1)) \o <<0>>

\* Arithmetic on digit strings, for the binary rounding of big.Float.Float64.
RECURSIVE Strip(_)
Strip(d) == IF Len(d) > 1 /\ Head(d) = 0 THEN Strip(Tail(d)) ELSE d

RECURSIVE MulSmall(_, _, _)
MulSmall(d, k, carry) ==
    IF d = <<>> THEN (IF carry = 0 THEN <<>> ELSE <<carry>>)
    ELSE LET t == d[Len(d)] * k + carry
         IN MulSmall(SubSeq(d, 1, Len(d) - 1), k, t \div 10) \o <<t % 10>>

RECURSIVE HalveFrom(_, _)
HalveFrom(d, rem) ==
    IF d = <<>> THEN <<>>
    ELSE LET t == rem * 10 + Head(d)
         IN <<t \div 2>> \o HalveFrom(Tail(d), t % 2)

Halve(d) == Strip(HalveFrom(d, 0))
IsOdd(d) == d[Len(d)] % 2 = 1

RECURSIVE Times(_, _, _)
Times(d, k, n) == IF n <= 0 THEN d ELSE Times(Strip(MulSmall(d, k, 0)), k, n - 1)

Pow2_52 == <<4, 5, 0, 3, 5, 9, 9, 6, 2, 7, 3, 7, 0, 4, 9, 6>>
Pow2_53 == <<9, 0, 0, 7, 1, 9, 9, 2, 5, 4, 7, 4, 0, 9, 9, 2>>

\* The mantissa q of the float64 nearest to an integer d >= 2^53 with the bits
\* below it: q is halved until it has 53 bits, half is the last bit dropped and
\* sticky tells whether a one was dropped before it; j counts the halvings.
RECURSIVE Narrow(_, _, _, _)
Narrow(q, half, sticky, j) ==
    IF DigitsLeq(Pow2_53, q)
        THEN Narrow(Halve(q), IsOdd(q), sticky \/ half, j + 1)
        ELSE [q |-> q, half |-> half, sticky |-> sticky, j |-> j]

\* The same for t / 10^k below 2^52: t is doubled until its integer part has
\* 53 bits or nothing is left behind the point; j counts the doublings.
RECURSIVE Widen(_, _, _)
Widen(t, k, j) ==
    LET padded == Zeros(k + 1 - Len(t)) \o t
        int == Strip(SubSeq(padded, 1, Len(padded) - k))
        frac == SubSeq(padded, Len(padded) - k + 1, Len(padded))
    IN IF ~DigitsLeq(Pow2_52, int) /\ k > 0 /\ frac # Zeros(k)
           THEN Widen(Strip(MulSmall(t, 2, 0)), k, j + 1)
           ELSE [q |-> int, j |-> j,
                 half |-> k > 0 /\ frac[1] >= 5,
                 sticky |-> k > 0 /\ frac # Zeros(k) /\ frac # <<5>> \o Zeros(k - 1)]

\* big.Float.Float64: the nearest float64, halves to even, and whether it is
\* the number itself (big.Exact).  The exponent range of float64 is beyond
\* the numbers drawn here.
Float64(x) ==
    IF x.mag = <<0>> THEN [value |-> Zero, exact |-> TRUE]
    ELSE LET k == IF x.exp < 0 THEN 0 - x.exp ELSE 0
             t == IF x.exp < 0 THEN x.mag ELSE x.mag \o Zeros(x.exp)
             w == Widen(t, k, 0)
             r == IF DigitsLeq(Pow2_53, w.q)
                      THEN Narrow(w.q, w.half, w.sticky, 0) ELSE w
             down == DigitsLeq(Pow2_53, w.q)
             up == r.half /\ (r.sticky \/ IsOdd(r.q))
             q == IF up THEN Increment(r.q) ELSE r.q
             value == IF down THEN Num(x.neg, Times(q, 2, r.j), 0)
                      ELSE Num(x.neg, Times(q, 5, r.j), 0 - r.j)
         IN [value |-> Normalize(value), exact |-> ~r.half /\ ~r.sticky]

AsFloat64(v) ==
    CASE v.kind = "Float" -> Return(GoVal("float64", "", v.n, FALSE), NoErr)
      [] v.kind = "BigFloat" ->
            LET f64 == Float64(v.n)
            IN Return(GoVal("float64", "", f64.value, FALSE),
                      IF f64.exact THEN NoErr
                      ELSE Err("big.Float value cannot be represented as float64", ""))
      [] OTHER -> Return(ZeroVal, Err("value is not a float", ""))

\* A variant that takes any number for a float.
AsBigFloatOfAnyNumber(v) ==
    IF v.kind \in {"BigFloat", "Float", "Integer", "BigInt"}
        THEN Return(GoVal("*big.Float", "", v.n, FALSE), NoErr)
        ELSE Return(ZeroVal, Err("value is not a big.Float", ""))

AsBigFloat(v) ==
    CASE v.kind = "BigFloat" -> Return(GoVal("*big.Float", "", v.n, FALSE), NoErr)
      [] v.kind = "Float" -> Return(GoVal("*big.Float", "", v.n, FALSE), NoErr)
      [] OTHER -> Return(ZeroVal, Err("value is not a big.Float", ""))

AsBool(v) ==
    IF v.kind = "Boolean" THEN Return(GoVal("bool", "", Zero, v.b), NoErr)
    ELSE Return(ZeroVal, Err("value is not a boolean", ""))

\* The extractor passed as fn, by name.
Apply(fn, v) ==
    CASE fn = "AsString" -> AsString(v)
      [] fn = "AsInt64" -> AsInt64(v)
      [] fn = "AsBigInt" -> AsBigInt(v)
      [] fn = "AsBool" -> AsBool(v)
      [] fn = "AsFloat64" -> AsFloat64(v)
      [] fn = "AsBigFloat" -> AsBigFloat(v)

\* A variant that reports every failure as a missing key.
GetAlwaysNotFound(node, key, fn) ==
    IF key.kind = "string" /\ key.s \in DOMAIN node.Properties
            /\ Apply(fn, node.Properties[key.s]).err = NoErr
        THEN Apply(fn, node.Properties[key.s])
        ELSE Return(ZeroVal, Err("property: no such key", ErrNotFound))

\* Get.  Arguments[key] with a negative key is an index out of range: a panic.
Get(node, key, fn) ==
    IF key.kind = "string"
        THEN IF key.s \in DOMAIN node.Properties
                THEN Apply(fn, node.Properties[key.s])
                ELSE Return(ZeroVal, Err("property: no such key", ErrNotFound))
        ELSE IF Len(node.Arguments) <= key.i
                THEN Return(ZeroVal, Err("argument at index: no such key", ErrNotFound))
             ELSE IF key.i < 0 THEN Panic
             ELSE Apply(fn, node.Arguments[key.i + 1])

\* A variant that pads with one Null at most.
PadWithNullOnce(args, i, key) ==
    IF i <= key THEN Append(args, NewNull) ELSE args

\* Set's loop: for i := len(node.Arguments); i <= key; i++ { append Null{} }
RECURSIVE PadWithNull(_, _, _)
PadWithNull(args, i, key) ==
    IF i <= key THEN PadWithNull(Append(args, NewNull), i + 1, key) ELSE args

\* A variant that appends the key without looking for it.
SetAppending(node, key, value) ==
    [node |-> IF key.kind = "string"
                  THEN [node EXCEPT !.PropertyOrder = Append(@, key.s),
                                    !.Properties = MapPut(@, key.s, value)]
                  ELSE node,
     err |-> NoErr]

\* A variant that writes a negative index at the front instead of refusing it.
SetClamping(node, key, value) ==
    IF key.kind = "string"
        THEN [node |-> [node EXCEPT
                    !.PropertyOrder = IF Contains(@, key.s) THEN @ ELSE Append(@, key.s),
                    !.Properties = MapPut(@, key.s, value)],
              err |-> NoErr]
    ELSE LET i == IF key.i < 0 THEN 0 ELSE key.i
             padded == IF i >= Len(node.Arguments)
                           THEN PadWithNull(node.Arguments, Len(node.Arguments), i)
                           ELSE node.Arguments
         IN [node |-> [node EXCEPT !.Arguments = [padded EXCEPT ![i + 1] = value]],
             err |-> IF key.i < 0 THEN Err("invalid argument index", "") ELSE NoErr]

\* Set: the node after the call, and the error returned.
Set(node, key, value) ==
    IF key.kind = "string"
        THEN [node |-> [node EXCEPT
                    !.PropertyOrder = IF Contains(@, key.s) THEN @ ELSE Append(@, key.s),
                    !.Properties = MapPut(@, key.s, value)],
              err |-> NoErr]
    ELSE IF key.i < 0
        THEN [node |-> node, err |-> Err("invalid argument index", "")]
    ELSE LET padded == IF key.i >= Len(node.Arguments)
                           THEN PadWithNull(node.Arguments, Len(node.Arguments), key.i)
                           ELSE node.Arguments
         IN [node |-> [node EXCEPT !.Arguments = [padded EXCEPT ![key.i + 1] = value]],
             err |-> NoErr]

----------------------------------------------------------------------------
(* The event source (ckdl's kdl_parser_next_event) and Parser (parser.go)  *)

Event(type, name, value) == [Type |-> type, Name |-> name, Value |-> value]

\* What the source delivers (kdl_event_data): the value is a kdl_value.
StartNode(name, ta) == Event("start_node", name, CNull(ta))
Argument(v) == Event("argument", "", v)
Property(k, v) == Event("property", k, v)
EndNode == Event("end_node", "", CNull(NoAnnot))
Eof == Event("eof", "", CNull(NoAnnot))
ParseError == Event("parse_error", "", CNull(NoAnnot))

\* The kdlEvent the parser keeps: the value is a Go Value.  NoEvent is nil.
kdlEvent(e) == Event(e.Type, e.Name, newKdlValue(e.Value))
NoEvent == Event("nil", "", NewNull)

NoError == ""

\* Parser.next, the source answering with event e.  Once ev is eof nothing is
\* pulled; a parse_error comes back as an error and leaves ev as it was.
\* A variant that takes a parse error for no event at all.
nextSkippingParseError(cur, e) ==
    IF cur # NoEvent /\ cur.Type = "eof" THEN [ev |-> cur, err |-> NoError, pull |-> FALSE]
    ELSE IF e.Type = "parse_error" THEN [ev |-> cur, err |-> NoError, pull |-> TRUE]
    ELSE [ev |-> kdlEvent(e), err |-> NoError, pull |-> TRUE]

next(cur, e) ==
    IF cur # NoEvent /\ cur.Type = "eof"
        THEN [ev |-> cur, err |-> NoError, pull |-> FALSE]
    ELSE IF e.Type = "parse_error"
        THEN [ev |-> cur, err |-> "ckdl parse error", pull |-> TRUE]
    ELSE [ev |-> kdlEvent(e), err |-> NoError, pull |-> TRUE]

\* Parser.accept: the deferred call assigns next's error to the named result
\* err after the return statement has set it, so the error of a missing or
\* mismatched event is replaced by next's.
accept(cur, eventType, e) ==
    LET n == next(cur, e)
        matched == cur # NoEvent /\ cur.Type = eventType
    IN [got |-> IF matched THEN cur ELSE NoEvent,
        err |-> n.err, ev |-> n.ev, pull |-> n.pull]

\* The record of a node's property writes: nothing written yet, and one more.
NoWrites == [first |-> <<>>, last |-> EmptyMap]
Write(w, k, v) ==
    [first |-> IF Contains(w.first, k) THEN w.first ELSE Append(w.first, k),
     last |-> MapPut(w.last, k, v)]

Top == stack[Len(stack)]

Pulled(a, e) == IF a.pull THEN Append(pulled, e) ELSE pulled

\* No batch call: an empty Document, nothing called.
Batch(state, call, target, records, i, err, nodes, before, calls) ==
    [state |-> state, call |-> call, target |-> target, records |-> records, i |-> i,
     err |-> err, nodes |-> nodes, before |-> before, calls |-> calls]
NoBatch == Batch("idle", "", Nil, <<>>, 0, "", <<>>, <<>>, 0)

\* No UnmarshalAll call.  visited lists the nodes UnmarshalKDL was called on.
NoUnmarshal ==
    [state |-> "idle", nodes |-> <<>>, i |-> 0, out |-> <<>>, visited |-> <<>>,
     result |-> <<>>, isNil |-> TRUE, err |-> NoErr]

\* A stream of any events is cut at MaxEvents; a text is read to its end.
NoRound == [size |-> 0, text |-> <<>>, first |-> <<>>]
CanPull == Len(pulled) < MaxEvents \/ Len(pulled) < Len(round.text)

\* ParseDocument (or a nextNode under it) returns (nil, err).
Fail(a, e, err) ==
    /\ pstate' = "done"
    /\ result' = [err |-> err, doc |-> <<>>, isNil |-> TRUE]
    /\ ev' = a.ev
    /\ pulled' = Pulled(a, e)
    /\ stack' = <<>>
    /\ UNCHANGED <<unmarshal, round, batch, heap, doc, ret, written, emitterVars>>

\* ParseDocument up to its loop: the first next, whose error is dropped.
ParseDocumentBegin(E) ==
    /\ pstate = "idle"
    /\ \E e \in E :
        LET n == next(ev, e) IN
        IF n.ev = NoEvent
            THEN Fail(n, e, "no event data")
            ELSE /\ ev' = n.ev
                 /\ pulled' = Pulled(n, e)
                 /\ pstate' = "doc"
                 /\ doc' = <<>>
                 /\ UNCHANGED <<unmarshal, round, batch, heap, stack, result, ret, written, emitterVars>>

\* The property branch of nextNode's first loop, on the node under construction.
nextNodeProperty(node, prop) ==
    LET repeated == prop.Name \in DOMAIN node.Properties IN
    [node EXCEPT !.Properties = MapPut(node.Properties, prop.Name, prop.Value),
                 !.PropertyOrder = IF repeated THEN @ ELSE Append(@, prop.Name)]

nextNodeArgumentFront(node, arg) ==
    [node EXCEPT !.Arguments = <<arg.Value>> \o @]

\* The argument branch of nextNode's first loop.
nextNodeArgument(node, arg) ==
    [node EXCEPT !.Arguments = Append(@, arg.Value)]

\* nextNode's child loop: node.Children = append(node.Children, n).
nextNodeChild(node, n) ==
    [node EXCEPT !.Children = Append(@, n)]

\* nextNode's entry: a start_node at document level or in a node's child loop.
AcceptStartNode(E) ==
    /\ pstate = "doc"
    /\ ev.Type = "start_node"
    /\ CanPull
    /\ \E e \in E :
        LET a == accept(ev, "start_node", e)
            parent == IF stack = <<>> THEN Nil ELSE Top.node
            id == Len(heap) + 1
        IN
        IF a.err # NoError THEN Fail(a, e, a.err)
        ELSE IF a.got.Value.kind # "Null" THEN Fail(a, e, "invalid type annotation")
        ELSE /\ heap' = Append(heap, NodeRec(a.got.Name, a.got.Value.ta, parent))
             /\ stack' = Append(
                    IF stack = <<>> THEN stack
                    ELSE [stack EXCEPT ![Len(stack)].phase = "children"],
                    [node |-> id, phase |-> "args"])
             /\ ev' = a.ev
             /\ pulled' = Pulled(a, e)
             /\ written' = Append(written, NoWrites)
             /\ UNCHANGED <<unmarshal, round, batch, doc, pstate, result, ret, emitterVars>>

AcceptArgument(E) ==
    /\ pstate = "doc"
    /\ stack # <<>>
    /\ Top.phase = "args"
    /\ ev.Type = "argument"
    /\ CanPull
    /\ \E e \in E :
        LET a == accept(ev, "argument", e) IN
        IF a.err # NoError THEN Fail(a, e, a.err)
        ELSE /\ heap' = [heap EXCEPT ![Top.node] = nextNodeArgument(@, a.got)]
             /\ ev' = a.ev
             /\ pulled' = Pulled(a, e)
             /\ UNCHANGED <<unmarshal, round, batch, stack, doc, pstate, result, ret, written, emitterVars>>

AcceptProperty(E) ==
    /\ pstate = "doc"
    /\ stack # <<>>
    /\ Top.phase = "args"
    /\ ev.Type = "property"
    /\ CanPull
    /\ \E e \in E :
        LET a == accept(ev, "property", e) IN
        IF a.err # NoError THEN Fail(a, e, a.err)
        ELSE /\ heap' = [heap EXCEPT ![Top.node] = nextNodeProperty(@, a.got)]
             /\ written' = [written EXCEPT
                    ![Top.node] = Write(@, a.got.Name, a.got.Value)]
             /\ ev' = a.ev
             /\ pulled' = Pulled(a, e)
             /\ UNCHANGED <<unmarshal, round, batch, stack, doc, pstate, result, ret, emitterVars>>

\* The end of nextNode: both loops have left, accept(end_node), return node.
AcceptEndNode(E) ==
    /\ pstate = "doc"
    /\ stack # <<>>
    /\ ev.Type # "start_node"
    /\ Top.phase = "args" => ev.Type \notin {"argument", "property"}
    /\ CanPull \/ ev.Type = "eof"
    /\ \E e \in E :
        LET a == accept(ev, "end_node", e)
            rest == SubSeq(stack, 1, Len(stack) - 1)
        IN
        IF a.err # NoError THEN Fail(a, e, a.err)
        ELSE /\ stack' = rest
             /\ IF rest = <<>>
                    THEN /\ doc' = Append(doc, Top.node)
                         /\ heap' = heap
                    ELSE /\ heap' = [heap EXCEPT
                                ![rest[Len(rest)].node] = nextNodeChild(@, Top.node)]
                         /\ doc' = doc
             /\ ev' = a.ev
             /\ pulled' = Pulled(a, e)
             /\ UNCHANGED <<unmarshal, round, batch, pstate, result, ret, written, emitterVars>>

\* The end of ParseDocument: its loop has left, accept(eof), return doc.
AcceptEof(E) ==
    /\ pstate = "doc"
    /\ stack = <<>>
    /\ ev.Type # "start_node"
    /\ CanPull \/ ev.Type = "eof"
    /\ \E e \in E :
        LET a == accept(ev, "eof", e) IN
        IF a.err # NoError THEN Fail(a, e, a.err)
        ELSE /\ pstate' = "done"
             /\ result' = [err |-> NoError, doc |-> doc, isNil |-> FALSE]
             /\ ev' = a.ev
             /\ pulled' = Pulled(a, e)
             /\ UNCHANGED <<unmarshal, round, batch, heap, stack, doc, ret, written, emitterVars>>

ParseDocument(E) ==
    \/ ParseDocumentBegin(E)
    \/ AcceptStartNode(E)
    \/ AcceptArgument(E)
    \/ AcceptProperty(E)
    \/ AcceptEndNode(E)
    \/ AcceptEof(E)

----------------------------------------------------------------------------
(* Emitter (emitter.go).  One action per primitive issued to the ckdl       *)
(* emitter; ok is what the primitive reported.                              *)

\* The precision of BigFloat.c's Text('G', 10).
TextPrecision == 10


\* x rounded to prec significant digits, to nearest, halves to even.
RoundSig(x, prec) ==
    IF Len(x.mag) <= prec THEN x
    ELSE LET kept == SubSeq(x.mag, 1, prec)
             rest == SubSeq(x.mag, prec + 1, Len(x.mag))
             half == <<5>> \o Zeros(Len(rest) - 1)
             up == IF rest = half THEN kept[prec] % 2 = 1 ELSE ~DigitsLeq(rest, half)
         IN Num(x.neg, IF up THEN Increment(kept) ELSE kept,
                x.exp + Len(x.mag) - prec)

\* big.Float.Text('G', prec): the literal written.  It is an integer literal
\* when %f is chosen (the decimal exponent is below prec) and no digit follows
\* the point.
Text(x, prec) ==
    LET r == Normalize(RoundSig(x, prec))
    IN Lit(r, r.exp >= 0 /\ Len(r.mag) - 1 + r.exp < prec)

\* Value.c: the kdl_value of a Go Value.
c(v) ==
    LET x == CASE v.kind = "String" -> CString(v.s)
               [] v.kind = "Integer" -> CInteger(v.n)
               [] v.kind = "Float" -> CFloat(v.n)
               [] v.kind = "BigInt" -> CStringEncoded(Lit(v.n, TRUE))
               [] v.kind = "BigFloat" -> CStringEncoded(Text(v.n, TextPrecision))
               [] v.kind = "Boolean" -> CBoolean(v.b)
               [] v.kind = "Null" -> CNull(NoAnnot)
    IN [x EXCEPT !.ta = v.ta]

\* slices.Sort on strings: the ascending arrangement (by insertion).
RECURSIVE Insert(_, _)
Insert(sorted, k) ==
    IF sorted = <<>> THEN <<k>>
    ELSE IF StrLess(k, Head(sorted)) THEN <<k>> \o sorted
    ELSE <<Head(sorted)>> \o Insert(Tail(sorted), k)

\* A variant that leaves the keys as they are.
NotSorted(seq) == seq

RECURSIVE slicesSort(_)
slicesSort(seq) ==
    IF seq = <<>> THEN <<>> ELSE Insert(slicesSort(Tail(seq)), Head(seq))

Primitive(op, name, value, ok) == [op |-> op, name |-> name, value |-> value, ok |-> ok]

Frame(node, pc, i) == [node |-> node, pc |-> pc, i |-> i]

\* Control after emitNode(node) has returned nil: the caller's loop goes on to
\* its next node, or leaves for finish_emitting_children / kdl_emit_end.
ReturnFromNode(h, st, pos) ==
    LET rest == SubSeq(st, 1, Len(st) - 1) IN
    IF rest = <<>>
        THEN IF pos < Len(edoc)
                THEN [heap |-> h, stack |-> <<Frame(edoc[pos + 1], "node", 0)>>, pos |-> pos + 1]
                ELSE [heap |-> h, stack |-> <<>>, pos |-> pos + 1]
        ELSE LET parent == rest[Len(rest)] IN
             IF parent.i < Len(h[parent.node].Children)
                THEN [heap |-> h,
                      stack |-> Append([rest EXCEPT ![Len(rest)].i = parent.i + 1],
                                       Frame(h[parent.node].Children[parent.i + 1], "node", 0)),
                      pos |-> pos]
                ELSE [heap |-> h,
                      stack |-> [rest EXCEPT ![Len(rest)].pc = "finish_children"],
                      pos |-> pos]

\* Control after the property loop: into the children, or return.
AfterProperties(h, st, pos) ==
    IF Len(h[st[Len(st)].node].Children) > 0
        THEN [heap |-> h, stack |-> [st EXCEPT ![Len(st)].pc = "start_children"], pos |-> pos]
        ELSE ReturnFromNode(h, st, pos)

\* Control after the argument loop: slices.Sort(node.PropertyOrder), in place,
\* then the property loop over the sorted keys.
AfterArguments(h, st, pos) ==
    LET n == st[Len(st)].node
        sorted == [h EXCEPT ![n].PropertyOrder = slicesSort(@)]
    IN IF Len(sorted[n].PropertyOrder) > 0
        THEN [heap |-> sorted, stack |-> [st EXCEPT ![Len(st)] = Frame(n, "property", 1)],
              pos |-> pos]
        ELSE AfterProperties(sorted, st, pos)

ETop == estack[Len(estack)]

\* A variant that goes on with the walk whatever the primitive reported.
IssueUnchecked(p, ok, msg, after) ==
    /\ sink' = Append(sink, p)
    /\ heap' = after.heap
    /\ estack' = after.stack
    /\ epos' = after.pos
    /\ UNCHANGED <<estate, eresult, edoc, parserVars, ret, written, round, batch, unmarshal>>

Issue(p, ok, msg, after) ==
    /\ sink' = Append(sink, p)
    /\ IF ok
        THEN /\ heap' = after.heap
             /\ estack' = after.stack
             /\ epos' = after.pos
             /\ UNCHANGED <<unmarshal, round, batch, estate, eresult>>
        ELSE /\ estate' = "done"
             /\ eresult' = msg
             /\ estack' = <<>>
             /\ UNCHANGED <<unmarshal, round, batch, heap, epos>>
    /\ UNCHANGED <<unmarshal, round, batch, edoc, parserVars, ret, written>>

\* EmitDocument is called on a fresh Emitter with the Document d.
EmitDocumentBegin(d) ==
    /\ estate = "idle"
    /\ pstate # "doc"
    /\ estate' = "running"
    /\ edoc' = d
    /\ estack' = IF d = <<>> THEN <<>> ELSE <<Frame(d[1], "node", 0)>>
    /\ epos' = 1
    /\ sink' = <<>>
    /\ eresult' = NoError
    /\ UNCHANGED <<unmarshal, round, batch, heap, parserVars, ret, written>>

\* kdl_emit_node / kdl_emit_node_with_type
EmitNode ==
    /\ estate = "running" /\ estack # <<>> /\ ETop.pc = "node"
    /\ \E ok \in BOOLEAN :
        LET node == heap[ETop.node] IN
        Issue(Primitive(IF node.TypeAnnotation = NoAnnot
                            THEN "kdl_emit_node" ELSE "kdl_emit_node_with_type",
                        node.Name, CNull(node.TypeAnnotation), ok),
              ok, IF node.TypeAnnotation = NoAnnot
                      THEN "failed to emit node start"
                      ELSE "failed to emit node start with type",
              IF Len(node.Arguments) > 0
                  THEN [heap |-> heap,
                        stack |-> [estack EXCEPT ![Len(estack)] = Frame(ETop.node, "argument", 1)],
                        pos |-> epos]
                  ELSE AfterArguments(heap, estack, epos))

\* kdl_emit_arg
EmitArg ==
    /\ estate = "running" /\ estack # <<>> /\ ETop.pc = "argument"
    /\ \E ok \in BOOLEAN :
        LET node == heap[ETop.node] IN
        Issue(Primitive("kdl_emit_arg", "", c(node.Arguments[ETop.i]), ok),
              ok, "failed to emit argument",
              IF ETop.i < Len(node.Arguments)
                  THEN [heap |-> heap,
                        stack |-> [estack EXCEPT ![Len(estack)].i = ETop.i + 1],
                        pos |-> epos]
                  ELSE AfterArguments(heap, estack, epos))

\* kdl_emit_property
EmitProperty ==
    /\ estate = "running" /\ estack # <<>> /\ ETop.pc = "property"
    /\ \E ok \in BOOLEAN :
        LET node == heap[ETop.node]
            k == node.PropertyOrder[ETop.i]
        IN
        Issue(Primitive("kdl_emit_property", k, c(node.Properties[k]), ok),
              ok, "failed to emit property",
              IF ETop.i < Len(node.PropertyOrder)
                  THEN [heap |-> heap,
                        stack |-> [estack EXCEPT ![Len(estack)].i = ETop.i + 1],
                        pos |-> epos]
                  ELSE AfterProperties(heap, estack, epos))

\* kdl_start_emitting_children, then emitNode on the first child
StartEmittingChildren ==
    /\ estate = "running" /\ estack # <<>> /\ ETop.pc = "start_children"
    /\ \E ok \in BOOLEAN :
        Issue(Primitive("kdl_start_emitting_children", "", CNull(NoAnnot), ok),
              ok, "failed to emit children",
              [heap |-> heap,
               stack |-> Append([estack EXCEPT ![Len(estack)] = Frame(ETop.node, "child", 1)],
                                Frame(heap[ETop.node].Children[1], "node", 0)),
               pos |-> epos])

\* kdl_finish_emitting_children, then return nil
FinishEmittingChildren ==
    /\ estate = "running" /\ estack # <<>> /\ ETop.pc = "finish_children"
    /\ \E ok \in BOOLEAN :
        Issue(Primitive("kdl_finish_emitting_children", "", CNull(NoAnnot), ok),
              ok, "failed to emit end children",
              ReturnFromNode(heap, estack, epos))

\* kdl_emit_end, then return nil
EmitEnd ==
    /\ estate = "running" /\ estack = <<>>
    /\ \E ok \in BOOLEAN :
        /\ sink' = Append(sink, Primitive("kdl_emit_end", "", CNull(NoAnnot), ok))
        /\ estate' = "done"
        /\ eresult' = IF ok THEN NoError ELSE "failed to emit end"
        /\ UNCHANGED <<unmarshal, round, batch, heap, edoc, estack, epos, parserVars, ret, written>>

\* Emitter.Destroy: the emitter is gone, the caller goes on.
Destroy ==
    /\ estate = "done"
    /\ estate' = "idle"
    /\ edoc' = <<>>
    /\ epos' = 0
    /\ sink' = <<>>
    /\ eresult' = NoError
    /\ UNCHANGED <<unmarshal, round, batch, heap, estack, parserVars, ret, written>>

EmitDocument ==
    \/ EmitNode
    \/ EmitArg
    \/ EmitProperty
    \/ StartEmittingChildren
    \/ FinishEmittingChildren
    \/ EmitEnd

----------------------------------------------------------------------------
(* Calls of the node API on a node made by NewNode *)

\* The caller is single-threaded: it calls the node API between, not during,
\* a parse or an emission.
ApiReady == pstate # "doc" /\ estate = "idle"

Call(op, node, key, fn, value, before, r) ==
    [op |-> op, node |-> node, key |-> key, fn |-> fn, value |-> value,
     before |-> before, val |-> r.val, err |-> r.err, panic |-> r.panic]

NoRet == Call("", Nil, IntKey(0), "", NewNull, NodeRec("", NoAnnot, Nil), Return(ZeroVal, NoErr))

NewNodeCall(name) ==
    /\ ApiReady
    /\ heap' = Append(heap, NewNode(name))
    /\ written' = Append(written, NoWrites)
    /\ ret' = Call("NewNode", Len(heap) + 1, IntKey(0), "", NewNull,
                   NodeRec("", NoAnnot, Nil), Return(ZeroVal, NoErr))
    /\ UNCHANGED <<unmarshal, round, batch, parserVars, emitterVars>>

AddArgumentCall(n, value) ==
    /\ ApiReady
    /\ Len(heap[n].Arguments) <= MaxIndex
    /\ heap' = [heap EXCEPT ![n] = AddArgument(@, value)]
    /\ ret' = Call("AddArgument", n, IntKey(0), "", value, heap[n], Return(ZeroVal, NoErr))
    /\ UNCHANGED <<unmarshal, round, batch, parserVars, emitterVars, written>>

AddPropertyCall(n, key, value) ==
    /\ ApiReady
    /\ heap' = [heap EXCEPT ![n] = AddProperty(@, key, value)]
    /\ written' = [written EXCEPT ![n] = Write(@, key, value)]
    /\ ret' = Call("AddProperty", n, StrKey(key), "", value, heap[n], Return(ZeroVal, NoErr))
    /\ UNCHANGED <<unmarshal, round, batch, parserVars, emitterVars>>

SetCall(n, key, value) ==
    LET r == Set(heap[n], key, value) IN
    /\ ApiReady
    /\ heap' = [heap EXCEPT ![n] = r.node]
    /\ written' = IF key.kind = "string"
                     THEN [written EXCEPT ![n] = Write(@, key.s, value)]
                     ELSE written
    /\ ret' = Call("Set", n, key, "", value, heap[n], Return(ZeroVal, r.err))
    /\ UNCHANGED <<unmarshal, round, batch, parserVars, emitterVars>>

GetCall(n, key, fn) ==
    /\ ApiReady
    /\ ret' = Call("Get", n, key, fn, NewNull, heap[n], Get(heap[n], key, fn))
    /\ UNCHANGED <<unmarshal, round, batch, heap, written, parserVars, emitterVars>>

----------------------------------------------------------------------------
(* The builder over every event stream of a small alphabet *)

ParseEvents ==
    {StartNode("a", NoAnnot), StartNode("b", <<"t">>),
     Argument(CInteger(IntNum(1))), Argument(CInteger(IntNum(2))),
     Property("x", CInteger(IntNum(1))),
     EndNode, Eof, ParseError}

InitParse ==
    /\ heap = <<>>
    /\ ev = NoEvent
    /\ stack = <<>>
    /\ doc = <<>>
    /\ pstate = "idle"
    /\ result = [err |-> NoError, doc |-> <<>>, isNil |-> TRUE]
    /\ pulled = <<>>
    /\ ret = NoRet
    /\ written = <<>>
    /\ edoc = <<>>
    /\ estack = <<>>
    /\ epos = 0
    /\ estate = "idle"
    /\ eresult = NoError
    /\ sink = <<>>
    /\ round = NoRound
    /\ batch = NoBatch
    /\ unmarshal = NoUnmarshal

NextParse == ParseDocument(ParseEvents)

SpecParse == InitParse /\ [][NextParse]_vars

----------------------------------------------------------------------------
(* One node: built by the parser from property events, or made by NewNode   *)
(* and written through the node API.                                        *)

V1 == NewInteger(IntNum(1))
V2 == NewString("s")

NodeKeys == {"x", "y"}
NodeIndexes == -1..MaxIndex
NodeValues == {V1, V2}
NodeExtractors == {"AsString", "AsInt64"}

NodeEvents ==
    {StartNode("a", NoAnnot), Property("x", CInteger(IntNum(1))),
     Property("x", CString("s")), Property("y", CInteger(IntNum(1))), EndNode, Eof}

ApiKeys == {StrKey(k) : k \in NodeKeys} \cup {IntKey(i) : i \in NodeIndexes}

\* The program either parses a document or makes one node; either way it may
\* emit what it has, and go on.
ParseFresh == heap = <<>> /\ ParseDocumentBegin(NodeEvents)
NewNodeFresh == heap = <<>> /\ NewNodeCall("n")
EmitParsed == pstate = "done" /\ ~result.isNil /\ EmitDocumentBegin(result.doc)
EmitMade == pstate = "idle" /\ heap # <<>> /\ EmitDocumentBegin(<<1>>)

\* In this specification the API is used on a node the program made itself.
ApiNodes == IF pstate = "idle" THEN 1..Len(heap) ELSE {}

NextNode ==
    \/ ParseFresh
    \/ AcceptStartNode(NodeEvents)
    \/ AcceptProperty(NodeEvents)
    \/ AcceptEndNode(NodeEvents)
    \/ AcceptEof(NodeEvents)
    \/ NewNodeFresh
    \/ \E n \in ApiNodes : AddArgumentCall(n, V1)
    \/ \E n \in ApiNodes, k \in NodeKeys, v \in NodeValues : AddPropertyCall(n, k, v)
    \/ \E n \in ApiNodes, k \in ApiKeys, v \in NodeValues : SetCall(n, k, v)
    \/ \E n \in ApiNodes, k \in ApiKeys, fn \in NodeExtractors : GetCall(n, k, fn)
    \/ EmitParsed
    \/ EmitMade
    \/ EmitNode
    \/ EmitArg
    \/ EmitProperty
    \/ StartEmittingChildren
    \/ FinishEmittingChildren
    \/ EmitEnd
    \/ Destroy

SpecNode == InitParse /\ [][NextNode]_vars

----------------------------------------------------------------------------
(* Property writes alone, in any mix: Property events of a parse, then      *)
(* AddProperty and Set on the nodes it built, or on a node made by NewNode. *)

\* The event source delivers a document of one node.
WriteEvents == IF pulled = <<>> THEN NodeEvents ELSE NodeEvents \ {StartNode("a", NoAnnot)}

NextWrite ==
    \/ heap = <<>> /\ ParseDocumentBegin(WriteEvents)
    \/ AcceptStartNode(WriteEvents)
    \/ AcceptProperty(WriteEvents)
    \/ AcceptEndNode(WriteEvents)
    \/ AcceptEof(WriteEvents)
    \/ NewNodeFresh
    \/ \E n \in 1..Len(heap), k \in NodeKeys, v \in NodeValues : AddPropertyCall(n, k, v)
    \/ \E n \in 1..Len(heap), k \in NodeKeys, v \in NodeValues : SetCall(n, StrKey(k), v)

SpecWrite == InitParse /\ [][NextWrite]_vars

----------------------------------------------------------------------------
(* A round trip: a tree made through the node API is emitted, the text is   *)
(* read back by a parser, and the tree it builds is emitted again.          *)

\* What a ckdl parser delivers for the value a ckdl emitter wrote.  A number
\* keeps its type, but one written from a string is read from its literal: an
\* integer literal of the int64 range is an integer, a literal that is not an
\* integer is a double where a double holds it (asFloat), and the literal
\* itself otherwise.
Reread(v, asFloat) ==
    IF v.type = "KDL_TYPE_NUMBER" /\ v.numType = "STRING_ENCODED"
        THEN LET x == IF v.lit.isInt /\ IsInt64(IntDigits(v.lit.num))
                          THEN CInteger(IntDigits(v.lit.num))
                      ELSE IF ~v.lit.isInt /\ asFloat
                          THEN CFloat(Normalize(v.lit.num))
                      ELSE CStringEncoded(v.lit)
             IN [x EXCEPT !.ta = v.ta]
        ELSE v

\* The events a ckdl parser delivers for the text of a sequence of emitter
\* primitives.  open has one flag per nesting level: whether a node written at
\* that level is still to be closed.  The end of a children block closes the
\* last child and the parent.
RECURSIVE TextEvents(_, _, _)
TextEvents(s, open, asFloat) ==
    IF s = <<>> THEN <<>>
    ELSE LET p == Head(s)
             n == Len(open)
             close == IF open[n] THEN <<EndNode>> ELSE <<>>
         IN
         CASE p.op \in {"kdl_emit_node", "kdl_emit_node_with_type"} ->
                close \o <<StartNode(p.name, p.value.ta)>>
                      \o TextEvents(Tail(s), [open EXCEPT ![n] = TRUE], asFloat)
           [] p.op = "kdl_emit_arg" ->
                <<Argument(Reread(p.value, asFloat))>> \o TextEvents(Tail(s), open, asFloat)
           [] p.op = "kdl_emit_property" ->
                <<Property(p.name, Reread(p.value, asFloat))>>
                    \o TextEvents(Tail(s), open, asFloat)
           [] p.op = "kdl_start_emitting_children" ->
                TextEvents(Tail(s), Append(open, FALSE), asFloat)
           [] p.op = "kdl_finish_emitting_children" ->
                close \o <<EndNode>>
                      \o TextEvents(Tail(s), [SubSeq(open, 1, n - 1) EXCEPT ![n - 1] = FALSE],
                                    asFloat)
           [] p.op = "kdl_emit_end" -> close \o <<Eof>>

RECURSIVE WithArguments(_, _)
WithArguments(node, args) ==
    IF args = <<>> THEN node
    ELSE WithArguments(AddArgument(node, Head(args)), Tail(args))

RECURSIVE WithProperties(_, _)
WithProperties(node, kvs) ==
    IF kvs = <<>> THEN node
    ELSE WithProperties(AddProperty(node, Head(kvs)[1], Head(kvs)[2]), Tail(kvs))

\* 12345678901.5 and 2^63
BigF == NewBigFloat(Num(FALSE, <<1, 2, 3, 4, 5, 6, 7, 8, 9, 0, 1, 5>>, -1))
BigI == NewBigInt(Num(FALSE, MinInt64Mag, 0))
V3 == withTypeAnnotation(NewInteger(IntNum(2)), <<"u8">>)

RoundValues == {V1, V2, V3, NewBoolean(TRUE), BigF}
RoundArguments ==
    {<<>>, <<NewNull>>, <<BigI>>, <<NewFloat(Num(FALSE, <<1, 5>>, -1))>>}
        \cup {<<v>> : v \in RoundValues}
        \cup {<<v, w>> : v \in {V1, V2}, w \in RoundValues}
RoundProperties ==
    {<<>>,
     <<<<"y", V1>>>>,
     <<<<"y", V1>>, <<"x", V2>>>>,
     <<<<"x", V1>>, <<"y", V3>>, <<"x", V2>>>>,
     <<<<"y", V2>>, <<"xy", BigI>>, <<"x", V1>>>>}

\* The trees of a round trip: a root node a with any of the arguments and
\* properties above, alone, with children, or followed by a sibling.
RoundTrees ==
    LET B == WithArguments(NewNode("b"), <<V2>>)
        D == WithProperties(NewNode("c"), <<<<"y", V1>>, <<"x", V1>>>>)
    IN UNION {
        LET A == WithProperties(WithArguments(NodeRec("a", ta, Nil), args), kvs)
        IN {<<A>>,
            <<AddChild(A, 2), B>>,
            <<AddChild(A, 2), AddChild(B, 3), D>>,
            <<AddChild(AddChild(A, 2), 3), B, D>>,
            <<AddChild(A, 2), B, D>>}
        : ta \in {NoAnnot, <<"t">>}, args \in RoundArguments, kvs \in RoundProperties}

\* The top-level nodes of the tree the round trip began with.
IsChild(h, child) == \E n \in 1..Len(h) : Contains(h[n].Children, child)
RoundDocument == SelectSeq([i \in 1..round.size |-> i], LAMBDA i : ~IsChild(heap, i))

\* The parser reads the text: its events in order, and Eof ever after.
RoundInput ==
    IF Len(pulled) < Len(round.text) THEN {round.text[Len(pulled) + 1]} ELSE {Eof}

InitRound ==
    /\ heap \in RoundTrees
    /\ ev = NoEvent
    /\ stack = <<>>
    /\ doc = <<>>
    /\ pstate = "idle"
    /\ result = [err |-> NoError, doc |-> <<>>, isNil |-> TRUE]
    /\ pulled = <<>>
    /\ ret = NoRet
    /\ written = [n \in 1..Len(heap) |-> NoWrites]
    /\ edoc = <<>>
    /\ estack = <<>>
    /\ epos = 0
    /\ estate = "idle"
    /\ eresult = NoError
    /\ sink = <<>>
    /\ round = [size |-> Len(heap), text |-> <<>>, first |-> <<>>]
    /\ batch = NoBatch
    /\ unmarshal = NoUnmarshal

EmitTree == round.text = <<>> /\ EmitDocumentBegin(RoundDocument)

\* The text written is complete: it is what the parser will read.
ReadBack ==
    /\ estate = "done" /\ eresult = NoError
    /\ round.text = <<>>
    /\ \E asFloat \in BOOLEAN :
        round' = [round EXCEPT !.text = TextEvents(sink, <<FALSE>>, asFloat),
                               !.first = sink]
    /\ UNCHANGED <<unmarshal, batch, heap, parserVars, emitterVars, ret, written>>

ParseText == round.text # <<>> /\ ParseDocumentBegin(RoundInput)
DestroyFirst == pstate = "done" /\ Destroy
EmitRebuilt == pstate = "done" /\ ~result.isNil /\ EmitDocumentBegin(result.doc)

NextRound ==
    \/ EmitTree
    \/ EmitNode
    \/ EmitArg
    \/ EmitProperty
    \/ StartEmittingChildren
    \/ FinishEmittingChildren
    \/ EmitEnd
    \/ ReadBack
    \/ ParseText
    \/ AcceptStartNode(RoundInput)
    \/ AcceptArgument(RoundInput)
    \/ AcceptProperty(RoundInput)
    \/ AcceptEndNode(RoundInput)
    \/ AcceptEof(RoundInput)
    \/ DestroyFirst
    \/ EmitRebuilt

SpecRound == InitRound /\ [][NextRound]_vars

----------------------------------------------------------------------------
(* Numbers at the edge of int64: a node's arguments are delivered as        *)
(* string-encoded literals, and read back with Get.                         *)

\* 2^63 - 1, 2^63 and -2^63 - 1 as integer literals, and 1.5e30.
EdgeLiterals ==
    {Lit(Num(FALSE, MaxInt64Mag, 0), TRUE),
     Lit(Num(FALSE, MinInt64Mag, 0), TRUE),
     Lit(Num(TRUE, Increment(MinInt64Mag), 0), TRUE),
     Lit(Num(FALSE, <<1, 5>>, 29), FALSE)}

\* The event source delivers a document of one node with such arguments.
ValueEvents ==
    IF pulled = <<>> THEN {StartNode("a", NoAnnot)}
    ELSE {Argument(CStringEncoded(l)) : l \in EdgeLiterals} \cup {EndNode, Eof}

ValueExtractors == {"AsInt64", "AsBigInt"}

NextValue ==
    \/ heap = <<>> /\ ParseDocumentBegin(ValueEvents)
    \/ AcceptStartNode(ValueEvents)
    \/ AcceptArgument(ValueEvents)
    \/ AcceptEndNode(ValueEvents)
    \/ AcceptEof(ValueEvents)
    \/ \E n \in 1..Len(heap), i \in 0..MaxIndex, fn \in ValueExtractors :
            GetCall(n, IntKey(i), fn)

SpecValue == InitParse /\ [][NextValue]_vars

----------------------------------------------------------------------------
(* The batch marshal helpers (MarshalNodes, MarshalChildren), one record at *)
(* a time.  A record's MarshalKDL makes a node, or fails.                   *)

MaxRecords == 3

Record(name, err) == [name |-> name, err |-> err]
Records == {Record("p", NoError), Record("q", NoError),
            Record("", "p failed"), Record("", "q failed")}

RECURSIVE SeqsUpTo(_, _)
SeqsUpTo(S, n) ==
    IF n = 0 THEN {<<>>}
    ELSE LET shorter == SeqsUpTo(S, n - 1)
         IN shorter \cup {Append(q, x) : q \in {t \in shorter : Len(t) = n - 1}, x \in S}

\* The list the call appends to: d.Nodes, or n.Children.
BatchList == IF batch.call = "MarshalNodes" THEN batch.nodes ELSE heap[batch.target].Children

\* A Document of one node that has one child.
InitMarshal ==
    /\ heap = <<AddChild(NewNode("n"), 2), NewNode("c")>>
    /\ ev = NoEvent
    /\ stack = <<>>
    /\ doc = <<>>
    /\ pstate = "idle"
    /\ result = [err |-> NoError, doc |-> <<>>, isNil |-> TRUE]
    /\ pulled = <<>>
    /\ ret = NoRet
    /\ written = <<NoWrites, NoWrites>>
    /\ edoc = <<>>
    /\ estack = <<>>
    /\ epos = 0
    /\ estate = "idle"
    /\ eresult = NoError
    /\ sink = <<>>
    /\ round = NoRound
    /\ batch = [NoBatch EXCEPT !.nodes = <<1>>]
    /\ unmarshal = NoUnmarshal

MarshalNodes ==
    /\ batch.state = "idle"
    /\ \E records \in SeqsUpTo(Records, MaxRecords) :
        batch' = Batch("running", "MarshalNodes", Nil, records, 1, NoError,
                       batch.nodes, batch.nodes, 0)
    /\ UNCHANGED <<unmarshal, heap, parserVars, emitterVars, ret, written, round>>

MarshalChildren ==
    /\ batch.state = "idle"
    /\ \E n \in 1..Len(heap), records \in SeqsUpTo(Records, MaxRecords) :
        batch' = Batch("running", "MarshalChildren", n, records, 1, NoError,
                       batch.nodes, heap[n].Children, 0)
    /\ UNCHANGED <<unmarshal, heap, parserVars, emitterVars, ret, written, round>>

\* One turn of the loop: MarshalKDL on the next record, then return its error
\* or append its node.
MarshalKDL ==
    /\ batch.state = "running"
    /\ batch.i <= Len(batch.records)
    /\ LET r == batch.records[batch.i]
           n == Len(heap) + 1
       IN IF r.err # NoError
            THEN /\ batch' = [batch EXCEPT !.state = "returned", !.err = r.err,
                                           !.calls = @ + 1]
                 /\ UNCHANGED <<unmarshal, heap, written>>
            ELSE /\ written' = Append(written, NoWrites)
                 /\ IF batch.call = "MarshalNodes"
                      THEN /\ heap' = Append(heap, NewNode(r.name))
                           /\ batch' = [batch EXCEPT !.nodes = Append(@, n),
                                                     !.i = @ + 1, !.calls = @ + 1]
                      ELSE /\ heap' = Append([heap EXCEPT ![batch.target] = AddChild(@, n)],
                                             NewNode(r.name))
                           /\ batch' = [batch EXCEPT !.i = @ + 1, !.calls = @ + 1]
    /\ UNCHANGED <<unmarshal, parserVars, emitterVars, ret, round>>

\* The loop is over: return nil.
MarshalReturn ==
    /\ batch.state = "running"
    /\ batch.i > Len(batch.records)
    /\ batch' = [batch EXCEPT !.state = "returned"]
    /\ UNCHANGED <<unmarshal, heap, parserVars, emitterVars, ret, written, round>>

NextMarshal ==
    \/ MarshalNodes
    \/ MarshalChildren
    \/ MarshalKDL
    \/ MarshalReturn

SpecMarshal == InitMarshal /\ [][NextMarshal]_vars

----------------------------------------------------------------------------
(* UnmarshalAll into a host type whose UnmarshalKDL reads the node's first  *)
(* argument as its Name, one node at a time.                                *)

\* Host.UnmarshalKDL: h.Name, err = kdl.Get(node, 0, kdl.AsString)
UnmarshalKDL(node) == Get(node, IntKey(0), "AsString")

\* A variant of the loop's turn that skips a node whose UnmarshalKDL fails.
unmarshalTurnSkipping(u, r) ==
    IF r.err # NoErr THEN [u EXCEPT !.i = @ + 1]
    ELSE [u EXCEPT !.out = Append(@, r.val), !.i = @ + 1]

\* One turn of UnmarshalAll's loop, r being what UnmarshalKDL returned:
\* return nil and the error, or append the item.
unmarshalTurn(u, r) ==
    IF r.err # NoErr
        THEN [u EXCEPT !.state = "returned", !.result = <<>>, !.isNil = TRUE, !.err = r.err]
        ELSE [u EXCEPT !.out = Append(@, r.val), !.i = @ + 1]

\* The nodes handed to UnmarshalAll: with a string, with an integer, or with
\* nothing as first argument.
HostNodes ==
    {WithArguments(NewNode("host"), <<NewString("s")>>),
     WithArguments(NewNode("host"), <<NewString("xy"), NewInteger(IntNum(1))>>),
     WithArguments(NewNode("host"), <<NewInteger(IntNum(1))>>),
     NewNode("host")}

InitUnmarshal ==
    /\ heap \in SeqsUpTo(HostNodes, MaxRecords)
    /\ ev = NoEvent
    /\ stack = <<>>
    /\ doc = <<>>
    /\ pstate = "idle"
    /\ result = [err |-> NoError, doc |-> <<>>, isNil |-> TRUE]
    /\ pulled = <<>>
    /\ ret = NoRet
    /\ written = [n \in 1..Len(heap) |-> NoWrites]
    /\ edoc = <<>>
    /\ estack = <<>>
    /\ epos = 0
    /\ estate = "idle"
    /\ eresult = NoError
    /\ sink = <<>>
    /\ round = NoRound
    /\ batch = NoBatch
    /\ unmarshal = NoUnmarshal

\* UnmarshalAll(nodes): out := make([]*T, 0, len(nodes))
UnmarshalAll ==
    /\ unmarshal.state = "idle"
    /\ unmarshal' = [NoUnmarshal EXCEPT !.state = "running",
                                        !.nodes = [i \in 1..Len(heap) |-> i], !.i = 1]
    /\ UNCHANGED <<heap, parserVars, emitterVars, ret, written, round, batch>>

UnmarshalNode ==
    /\ unmarshal.state = "running"
    /\ unmarshal.i <= Len(unmarshal.nodes)
    /\ LET n == unmarshal.nodes[unmarshal.i] IN
       unmarshal' = unmarshalTurn([unmarshal EXCEPT !.visited = Append(@, n)],
                                  UnmarshalKDL(heap[n]))
    /\ UNCHANGED <<heap, parserVars, emitterVars, ret, written, round, batch>>

\* return out, nil
UnmarshalReturn ==
    /\ unmarshal.state = "running"
    /\ unmarshal.i > Len(unmarshal.nodes)
    /\ unmarshal' = [unmarshal EXCEPT !.state = "returned", !.result = unmarshal.out,
                                      !.isNil = FALSE]
    /\ UNCHANGED <<heap, parserVars, emitterVars, ret, written, round, batch>>

NextUnmarshal ==
    \/ UnmarshalAll
    \/ UnmarshalNode
    \/ UnmarshalReturn

SpecUnmarshal == InitUnmarshal /\ [][NextUnmarshal]_vars

----------------------------------------------------------------------------
(* The event grammar, read off the delivered stream alone.  open holds one  *)
(* flag per open node: whether a child of it has started.  The answer names *)
(* the first place the stream leaves the grammar.                          *)

RECURSIVE Scan(_, _)
Scan(s, open) ==
    IF s = <<>> THEN "incomplete"
    ELSE LET e == Head(s)
             n == Len(open)
         IN
         CASE e.Type = "parse_error" -> "parse_error"
           [] e.Type = "start_node" ->
                Scan(Tail(s),
                     Append(IF n = 0 THEN open ELSE [open EXCEPT ![n] = TRUE], FALSE))
           [] e.Type \in {"argument", "property"} ->
                IF n = 0 THEN "stray"
                ELSE IF open[n] THEN "missing_end_node"
                ELSE Scan(Tail(s), open)
           [] e.Type = "end_node" ->
                IF n = 0 THEN "stray" ELSE Scan(Tail(s), SubSeq(open, 1, n - 1))
           [] e.Type = "eof" ->
                IF n > 0 THEN "missing_end_node"
                ELSE IF Tail(s) = <<>> THEN "well_formed" ELSE "after_eof"

Grammar == Scan(pulled, <<>>)

Returned == pstate = "done"
ReturnedDocument == Returned /\ ~result.isNil /\ result.err = NoError
ReturnedError == Returned /\ result.isNil /\ result.err # NoError

\* The tree as the events that describe it, properties left out: each node's
\* start, its arguments in order, its children in order, its end.
RECURSIVE TreeEvents(_, _), NodesEvents(_, _)
TreeEvents(h, id) ==
    <<Event("start_node", h[id].Name, withTypeAnnotation(NewNull, h[id].TypeAnnotation))>>
        \o [i \in 1..Len(h[id].Arguments) |-> Event("argument", "", h[id].Arguments[i])]
        \o NodesEvents(h, h[id].Children)
        \o <<kdlEvent(EndNode)>>
NodesEvents(h, ids) ==
    IF ids = <<>> THEN <<>>
    ELSE TreeEvents(h, Head(ids)) \o NodesEvents(h, Tail(ids))

WithoutProperties(s) ==
    LET kept == SelectSeq(s, LAMBDA e : e.Type # "property")
    IN [i \in 1..Len(kept) |-> kdlEvent(kept[i])]

\* C1: when the delivered stream closes an open node with anything but
\* end_node, ParseDocument returns an error and no Document.
C1_MissingEndNodeIsAnError ==
    (Returned /\ Grammar = "missing_end_node") => ReturnedError

\* C2: for a well-formed stream ParseDocument succeeds, and the Document holds
\* the nodes in the order and nesting of their start_node/end_node events, each
\* with the values of its argument events in order.
C2_WellFormedStreamBuildsItsTree ==
    (Returned /\ Grammar = "well_formed") =>
        /\ ReturnedDocument
        /\ NodesEvents(heap, result.doc) \o <<kdlEvent(Eof)>> = WithoutProperties(pulled)

\* A nested node with arguments at both levels, after a sibling-free stream of
\* seven events (the host/user scenario).
C2_Witness ==
    /\ ReturnedDocument
    /\ Grammar = "well_formed"
    /\ \E p \in 1..Len(heap) :
        /\ Len(heap[p].Arguments) > 0
        /\ \E i \in 1..Len(heap[p].Children) :
            Len(heap[heap[p].Children[i]].Arguments) > 0


\* C3: after any sequence of property writes to a node (Property events,
\* AddProperty, Set with a string key) its properties hold the last value
\* written to each key and its property order is the keys in the order of
\* their first write: rewriting a key neither moves nor duplicates it.
C3_LastWriteWinsFirstWriteOrders ==
    \A n \in 1..Len(heap) :
        /\ heap[n].Properties = written[n].last
        /\ heap[n].PropertyOrder = written[n].first

\* A parsed node with x then y, whose x is then rewritten by Set.
C3_Witness ==
    /\ pstate = "done"
    /\ ret.op = "Set"
    /\ ret.key = StrKey("x")
    /\ ret.before.PropertyOrder = <<"x", "y">>
    /\ ret.before.Properties["x"] = V1
    /\ heap[ret.node].Properties["x"] = V2
    /\ heap[ret.node].PropertyOrder = <<"x", "y">>

\* C4: in every reachable state each node's property order holds exactly the
\* keys of its properties, each once.
C4_OrderIsPermutationOfKeys ==
    \A n \in 1..Len(heap) :
        LET order == heap[n].PropertyOrder IN
        /\ \A i, j \in 1..Len(order) : order[i] = order[j] => i = j
        /\ {order[i] : i \in 1..Len(order)} = DOMAIN heap[n].Properties

\* A node written y then x, through Set and AddProperty, after an emission.
C4_Witness ==
    /\ estate = "done"
    /\ \E n \in 1..Len(heap) :
        /\ written[n].first = <<"y", "x">>
        /\ heap[n].PropertyOrder = <<"x", "y">>
        /\ DOMAIN heap[n].Properties = {"x", "y"}

\* C7: Set with an integer key i >= 0 returns no error; at or past the end it
\* leaves the old arguments, pads with Null up to i - 1 and puts V at i, for a
\* length of i + 1; inside, it replaces index i only.
C7_SetPadsOrReplaces ==
    (ret.op = "Set" /\ ret.key.kind = "int" /\ ret.key.i >= 0) =>
        LET old == ret.before.Arguments
            new == heap[ret.node].Arguments
            i == ret.key.i
        IN /\ ret.err = NoErr
           /\ Len(new) = IF i >= Len(old) THEN i + 1 ELSE Len(old)
           /\ new[i + 1] = ret.value
           /\ \A j \in 1..Len(old) : j # i + 1 => new[j] = old[j]
           /\ \A j \in (Len(old) + 1)..i : new[j] = NewNull

\* Set at the last index on a node with one argument.
C7_Witness ==
    /\ ret.op = "Set"
    /\ ret.key = IntKey(MaxIndex)
    /\ Len(ret.before.Arguments) = 1
    /\ Len(heap[ret.node].Arguments) = MaxIndex + 1
    /\ heap[ret.node].Arguments[MaxIndex] = NewNull

\* The variants an extractor takes, and the message of its refusal.
Takes(fn, kind) ==
    CASE fn = "AsString" -> kind = "String"
      [] fn = "AsInt64" -> kind \in {"Integer", "BigInt"}

Refusal(fn) ==
    CASE fn = "AsString" -> "value is not a string"
      [] fn = "AsInt64" -> "value is not an integer"

\* C8: Get with a string key fails with an error wrapping ErrNotFound exactly
\* when the key is absent; on a present key of a variant the extractor does
\* not take, the error is the extractor's own and does not wrap ErrNotFound.
C8_NotFoundIffAbsent ==
    (ret.op = "Get" /\ ret.key.kind = "string") =>
        LET present == ret.key.s \in DOMAIN ret.before.Properties IN
        /\ ~ret.panic
        /\ (ret.err # NoErr /\ IsNotFound(ret.err)) <=> ~present
        /\ (present /\ ~Takes(ret.fn, ret.before.Properties[ret.key.s].kind)) =>
                /\ ret.err = Err(Refusal(ret.fn), "")
                /\ ~IsNotFound(ret.err)

\* Get of a present integer property as a string.
C8_Witness ==
    /\ ret.op = "Get"
    /\ ret.key = StrKey("x")
    /\ ret.fn = "AsString"
    /\ "x" \in DOMAIN ret.before.Properties
    /\ ret.before.Properties["x"] = V1
    /\ ret.err = Err("value is not a string", "")

\* The least of a set of strings, and the set in ascending order.
Least(S) == CHOOSE k \in S : \A j \in S \ {k} : StrLess(k, j)

RECURSIVE Ascending(_)
Ascending(S) == IF S = {} THEN <<>> ELSE <<Least(S)>> \o Ascending(S \ {Least(S)})

\* What the walk owes the sink for a node, and for a sequence of nodes.
RECURSIVE OwedForNode(_, _), OwedForNodes(_, _)
OwedForNode(h, n) ==
    LET node == h[n]
        keys == Ascending(DOMAIN node.Properties)
    IN <<Primitive(IF node.TypeAnnotation = NoAnnot
                       THEN "kdl_emit_node" ELSE "kdl_emit_node_with_type",
                   node.Name, CNull(node.TypeAnnotation), TRUE)>>
       \o [i \in 1..Len(node.Arguments) |->
              Primitive("kdl_emit_arg", "", c(node.Arguments[i]), TRUE)]
       \o [i \in 1..Len(keys) |->
              Primitive("kdl_emit_property", keys[i], c(node.Properties[keys[i]]), TRUE)]
       \o OwedForNodes(h, node.Children)

OwedForNodes(h, ns) ==
    IF ns = <<>> THEN <<>> ELSE OwedForNode(h, Head(ns)) \o OwedForNodes(h, Tail(ns))

\* The node starts, arguments and properties the sink took.
Taken ==
    SelectSeq(sink, LAMBDA p :
        p.ok /\ p.op \in {"kdl_emit_node", "kdl_emit_node_with_type",
                          "kdl_emit_arg", "kdl_emit_property"})

\* C6: what EmitDocument has issued is, at every moment, the beginning of the
\* depth-first pre-order walk in which each node gives its start (with its
\* type annotation iff it has one), its arguments in sequence order, its
\* properties once each in ascending key order with their current values, and
\* then its children; when it returns without error, it is the whole walk.
C6_EmitsInCanonicalOrder ==
    estate # "idle" =>
        LET owed == OwedForNodes(heap, edoc) IN
        /\ Len(Taken) <= Len(owed)
        /\ \A i \in 1..Len(Taken) : Taken[i] = owed[i]
        /\ (estate = "done" /\ eresult = NoError) => Len(Taken) = Len(owed)

\* An emitted tree whose annotated root has two arguments, three properties
\* written in another order, a child, and a sibling after it.
C6_Witness ==
    /\ estate = "done" /\ eresult = NoError
    /\ round.text = <<>>
    /\ Len(edoc) = 2
    /\ heap[1].TypeAnnotation # NoAnnot
    /\ Len(heap[1].Arguments) = 2
    /\ DOMAIN heap[1].Properties = {"x", "xy", "y"}
    /\ Len(heap[1].Children) = 1

\* Two values are the same value: the same string, boolean or null, or the
\* same number, under the same type annotation.
IsNumber(v) == v.kind \in {"Integer", "Float", "BigInt", "BigFloat"}
SameValue(v, w) ==
    /\ v.ta = w.ta
    /\ IF IsNumber(v) THEN IsNumber(w) /\ Normalize(v.n) = Normalize(w.n)
       ELSE v.kind = w.kind /\ v.s = w.s /\ v.b = w.b

RECURSIVE SameNode(_, _, _)
SameNode(h, a, b) ==
    /\ h[a].Name = h[b].Name
    /\ h[a].TypeAnnotation = h[b].TypeAnnotation
    /\ Len(h[a].Arguments) = Len(h[b].Arguments)
    /\ \A i \in 1..Len(h[a].Arguments) : SameValue(h[a].Arguments[i], h[b].Arguments[i])
    /\ DOMAIN h[a].Properties = DOMAIN h[b].Properties
    /\ \A k \in DOMAIN h[a].Properties : SameValue(h[a].Properties[k], h[b].Properties[k])
    /\ Len(h[a].Children) = Len(h[b].Children)
    /\ \A i \in 1..Len(h[a].Children) : SameNode(h, h[a].Children[i], h[b].Children[i])

SameNodes(h, as, bs) ==
    /\ Len(as) = Len(bs)
    /\ \A i \in 1..Len(as) : SameNode(h, as[i], bs[i])

\* Two primitives write the same token.
SamePrimitive(p, q) ==
    /\ p.op = q.op /\ p.name = q.name /\ p.ok = q.ok
    /\ SameValue(newKdlValue(p.value), newKdlValue(q.value))

Rebuilt == pstate = "done" /\ round.text # <<>>
EmittedAgain == Rebuilt /\ estate = "done" /\ eresult = NoError /\ edoc = result.doc

\* C5: the tree rebuilt from the text emitted for a tree T equals T in each
\* node's name, type annotation, arguments and properties, and what is emitted
\* for the rebuilt tree is what was emitted for T.
C5_RebuildKeepsTheTree ==
    /\ Rebuilt =>
        /\ ReturnedDocument
        /\ SameNodes(heap, RoundDocument, result.doc)
    /\ EmittedAgain =>
        /\ Len(sink) = Len(round.first)
        /\ \A i \in 1..Len(sink) : SamePrimitive(sink[i], round.first[i])

\* The i-th argument the event source delivered for the node.
Delivered(i) == pulled[i + 1].Value

\* An integer literal outside the signed 64-bit range.
BigLiteral(d) ==
    /\ d.type = "KDL_TYPE_NUMBER" /\ d.numType = "STRING_ENCODED"
    /\ d.lit.isInt
    /\ ~DigitsLeq(d.lit.num.mag, IF d.lit.num.neg THEN MinInt64Mag ELSE MaxInt64Mag)

\* C9: an integer literal outside the int64 range, delivered by the event
\* source, becomes a BigInt; Get with AsInt64 on it returns an error and no
\* integer, and Get with AsBigInt returns exactly the integer written.
C9_BigLiteralBecomesBigInt ==
    heap # <<>> =>
        \A i \in 1..Len(heap[1].Arguments) :
            BigLiteral(Delivered(i)) =>
                /\ heap[1].Arguments[i].kind = "BigInt"
                /\ (ret.op = "Get" /\ ret.key = IntKey(i - 1)) =>
                      IF ret.fn = "AsInt64"
                          THEN ret.err # NoErr /\ ret.val = ZeroVal
                          ELSE /\ ret.err = NoErr
                               /\ ret.val.type = "*big.Int"
                               /\ ret.val.n = Delivered(i).lit.num

\* Both extractors have been used on such an argument.
C9_Witness ==
    /\ ret.op = "Get" /\ ret.fn = "AsBigInt" /\ ret.err = NoErr
    /\ ret.key.i < Len(heap[1].Arguments)
    /\ BigLiteral(Delivered(ret.key.i + 1))
    /\ Delivered(ret.key.i + 1).lit.num.neg

\* The first record of the batch whose conversion fails (0: none).
FirstFailure(records) ==
    IF \E i \in 1..Len(records) : records[i].err # NoError
        THEN CHOOSE i \in 1..Len(records) :
                /\ records[i].err # NoError
                /\ \A j \in 1..(i - 1) : records[j].err = NoError
        ELSE 0

\* C10: a batch call in which the conversion of record k fails returns that
\* error, has converted no record after k, and leaves the node list (the
\* children list) as it was before the call.
C10_BatchIsAllOrNothing ==
    (batch.state = "returned" /\ FirstFailure(batch.records) > 0) =>
        /\ batch.err = batch.records[FirstFailure(batch.records)].err
        /\ batch.calls = FirstFailure(batch.records)
        /\ BatchList = batch.before

\* A node the host type can be read from: its first argument is a string.
Readable(node) == Len(node.Arguments) > 0 /\ node.Arguments[1].kind = "String"

\* The first of the nodes that cannot be read (0: none).
FirstUnreadable(h, nodes) ==
    IF \E i \in 1..Len(nodes) : ~Readable(h[nodes[i]])
        THEN CHOOSE i \in 1..Len(nodes) :
                /\ ~Readable(h[nodes[i]])
                /\ \A j \in 1..(i - 1) : Readable(h[nodes[j]])
        ELSE 0

\* C11: UnmarshalAll calls UnmarshalKDL on the nodes in order; when every call
\* succeeds it returns one record per node, in order; at the first node that
\* fails it returns that error and nil, having called no later node.
C11_UnmarshalAllStopsAtFirstError ==
    LET u == unmarshal
        f == FirstUnreadable(heap, u.nodes)
    IN /\ Len(u.visited) <= Len(u.nodes)
       /\ u.visited = SubSeq(u.nodes, 1, Len(u.visited))
       /\ u.state = "returned" =>
            IF f = 0
                THEN /\ u.err = NoErr /\ ~u.isNil
                     /\ u.visited = u.nodes
                     /\ Len(u.result) = Len(u.nodes)
                     /\ \A i \in 1..Len(u.nodes) :
                            u.result[i].s = heap[u.nodes[i]].Arguments[1].s
                ELSE /\ u.err # NoErr /\ u.err = UnmarshalKDL(heap[u.nodes[f]]).err
                     /\ u.isNil /\ u.result = <<>>
                     /\ Len(u.visited) = f

\* A call that failed at its second node, with a third one after it.
C11_Witness ==
    /\ unmarshal.state = "returned"
    /\ unmarshal.err # NoErr
    /\ Len(unmarshal.visited) = 2
    /\ Len(unmarshal.nodes) > 2

\* The document-end primitives issued.
Ends == SelectSeq(sink, LAMBDA p : p.op = "kdl_emit_end")

\* C12: a primitive that reports failure is the last one issued, and
\* EmitDocument returns an error; the document-end is issued once, last, after
\* the whole walk, and only if nothing before it failed.
C12_SinkFailureAborts ==
    /\ \A i \in 1..(Len(sink) - 1) : sink[i].ok /\ sink[i].op # "kdl_emit_end"
    /\ (sink # <<>> /\ ~sink[Len(sink)].ok) => estate = "done" /\ eresult # NoError
    /\ estate = "running" => Ends = <<>>
    /\ (estate = "done" /\ \A i \in 1..Len(sink) : sink[i].ok) =>
            /\ eresult = NoError
            /\ Len(Ends) = 1
            /\ sink[Len(sink)].op = "kdl_emit_end"
            /\ Len(Taken) = Len(OwedForNodes(heap, edoc))

\* An emission aborted by a failing property, after others had succeeded.
C12_Witness ==
    /\ estate = "done" /\ eresult # NoError
    /\ Len(sink) > 2
    /\ sink[Len(sink)].op = "kdl_emit_property"
    /\ ~sink[Len(sink)].ok
    /\ Len(edoc) = 2

\* C13: a ParseError from the event source is the last event pulled, and
\* ParseDocument has then returned an error and no Document.
C13_ParseErrorIsTerminal ==
    /\ \A i \in 1..(Len(pulled) - 1) : pulled[i].Type # "parse_error"
    /\ (pulled # <<>> /\ pulled[Len(pulled)].Type = "parse_error") => ReturnedError

\* A ParseError met inside a child node, after other events.
C13_Witness ==
    /\ ReturnedError
    /\ Len(pulled) > 3
    /\ pulled[Len(pulled)].Type = "parse_error"
    /\ Len(heap) > 1

\* C14: when the event at document level, after the top-level nodes, is an
\* EndNode, an Argument or a Property, ParseDocument returns an error and no
\* Document.
C14_StrayEventIsAnError ==
    (Returned /\ Grammar = "stray") => ReturnedError

----------------------------------------------------------------------------
(* Every extractor on every variant: a node made with NewNode is given     *)
(* arguments of each variant, and they are read back with Get.             *)

\* One value of each variant; of the big ones, one that narrows and one that
\* does not: 5 and 2^63, 12345678901.5 and 2^53 + 1.
ExtractValues ==
    {NewString("s"), NewInteger(IntNum(1)), NewFloat(Num(FALSE, <<1, 5>>, -1)),
     NewBigInt(IntNum(5)), BigI, BigF, NewBigFloat(Num(FALSE, Increment(Pow2_53), 0)),
     NewBoolean(TRUE), NewNull}

Extractors == {"AsString", "AsInt64", "AsFloat64", "AsBigInt", "AsBigFloat", "AsBool"}

NextExtract ==
    \/ NewNodeFresh
    \/ \E n \in ApiNodes, v \in ExtractValues : AddArgumentCall(n, v)
    \/ \E n \in ApiNodes, i \in 0..MaxIndex, fn \in Extractors : GetCall(n, IntKey(i), fn)

SpecExtract == InitParse /\ [][NextExtract]_vars

\* The argument a returned Get read, and the variants an extractor takes.
GotArgument == ret.op = "Get" /\ ~ret.panic /\ ret.key.i < Len(ret.before.Arguments)
Extracted == ret.before.Arguments[ret.key.i + 1]
OwnVariant ==
    [AsString |-> {"String"}, AsInt64 |-> {"Integer"}, AsFloat64 |-> {"Float", "BigFloat"},
     AsBigInt |-> {"BigInt"}, AsBigFloat |-> {"BigFloat"}, AsBool |-> {"Boolean"}]
Accepted ==
    [AsString |-> {"String"}, AsInt64 |-> {"Integer", "BigInt"},
     AsFloat64 |-> {"Float", "BigFloat"}, AsBigInt |-> {"BigInt", "Integer"},
     AsBigFloat |-> {"BigFloat", "Float"}, AsBool |-> {"Boolean"}]

\* C15 (as stated): an extractor returns an error whenever the value's variant
\* is not its own: AsBigInt on a 64-bit Integer, AsBigFloat on a 64-bit Float
\* and AsInt64 on a BigInteger included; only AsFloat64 takes a second variant.
C15_OnlyOwnVariant ==
    GotArgument /\ Extracted.kind \notin OwnVariant[ret.fn] => ret.err # NoErr

\* C15 (amended): an extractor returns an error, which is not a not-found
\* error, whenever the value's variant is not one it accepts: AsInt64 accepts
\* Integer and BigInteger, AsBigInt accepts BigInteger and Integer, AsBigFloat
\* accepts BigFloat and Float, AsFloat64 accepts Float and BigFloat, AsString
\* only String, AsBool only Boolean.
C15_ErrorOutsideAcceptedVariants ==
    GotArgument /\ Extracted.kind \notin Accepted[ret.fn]
        => ret.err # NoErr /\ ~IsNotFound(ret.err) /\ ret.val = ZeroVal

\* AsBigFloat was handed an Integer and refused it.
C15_Witness ==
    /\ GotArgument
    /\ ret.fn = "AsBigFloat"
    /\ Extracted.kind = "Integer"
    /\ ret.err = Err("value is not a big.Float", "")

\* A step that is a call of Set with a negative index.
SetNegative == ret' # ret /\ ret'.op = "Set" /\ ret'.key.kind = "int" /\ ret'.key.i < 0

\* C16: Set with a negative integer index returns the invalid-index error and
\* leaves the node's arguments, properties and property order as they were.
C16_NegativeIndexIsRefused ==
    [][SetNegative =>
          /\ ret'.err = Err("invalid argument index", "")
          /\ heap'[ret'.node].Arguments = heap[ret'.node].Arguments
          /\ heap'[ret'.node].Properties = heap[ret'.node].Properties
          /\ heap'[ret'.node].PropertyOrder = heap[ret'.node].PropertyOrder]_vars

\* Set(node, -1, V) was called on a node that has arguments and properties.
C16_Witness ==
    /\ ret.op = "Set" /\ ret.key.kind = "int" /\ ret.key.i < 0
    /\ ret.err = Err("invalid argument index", "")
    /\ ret.before.Arguments # <<>>
    /\ ret.before.PropertyOrder # <<>>

----------------------------------------------------------------------------
(* Building trees: the parser and the construction calls of node.go,       *)
(* document.go and MarshalChildren on one heap, and GetKV on what is built. *)

MaxNodes == 2
MaxChildren == 2

NewKValue(name, value) == AddArgument(NewNode(name), value)

AddChildren(node, children) == [node EXCEPT !.Children = @ \o children]

\* GetKV.  child.Arguments[0] of a child without arguments is an index out of
\* range: a panic.
GetKV(h, node, name, fn) ==
    LET named == {i \in 1..Len(node.Children) : h[node.Children[i]].Name = name}
        first == CHOOSE i \in named : \A j \in named : i <= j
        child == h[node.Children[first]]
    IN IF named = {} THEN Return(ZeroVal, Err("child: no such key", ErrNotFound))
       ELSE IF child.Arguments = <<>> THEN Panic
       ELSE Apply(fn, child.Arguments[1])

\* The caller is single-threaded; here it builds from nothing or on a Document
\* that ParseDocument returned, and MarshalChildren is its last call.
BuildReady ==
    /\ ApiReady
    /\ batch.state = "idle"
    /\ pstate = "done" => ~result.isNil

\* A construction call: it hands back a node, and no error.
NoCall(op) ==
    Call(op, Nil, IntKey(0), "", NewNull, NodeRec("", NoAnnot, Nil), Return(ZeroVal, NoErr))

AddChildCall(n, child) ==
    /\ BuildReady
    /\ Len(heap[n].Children) < MaxChildren
    /\ heap' = [heap EXCEPT ![n] = AddChild(@, child)]
    /\ ret' = NoCall("AddChild")
    /\ UNCHANGED <<unmarshal, round, batch, parserVars, emitterVars, written>>

\* NewChild: NewNode, then AddChild.
NewChildCall(n, name) ==
    /\ BuildReady
    /\ Len(heap[n].Children) < MaxChildren
    /\ heap' = Append([heap EXCEPT ![n] = AddChild(@, Len(heap) + 1)], NewNode(name))
    /\ written' = Append(written, NoWrites)
    /\ ret' = NoCall("NewChild")
    /\ UNCHANGED <<unmarshal, round, batch, parserVars, emitterVars>>

\* AddKV and Node.NewKV: NewKValue, then AddChild.
AddKVCall(op, n, name, value) ==
    /\ BuildReady
    /\ Len(heap[n].Children) < MaxChildren
    /\ heap' = Append([heap EXCEPT ![n] = AddChild(@, Len(heap) + 1)],
                      NewKValue(name, value))
    /\ written' = Append(written, NoWrites)
    /\ ret' = NoCall(op)
    /\ UNCHANGED <<unmarshal, round, batch, parserVars, emitterVars>>

\* AddChildren, and AddChildrenFunc, whose fn adds these nodes to the Document
\* it is handed.
AddChildrenCall(op, n, children) ==
    /\ BuildReady
    /\ Len(heap[n].Children) + Len(children) <= MaxChildren
    /\ heap' = [heap EXCEPT ![n] = AddChildren(@, children)]
    /\ ret' = NoCall(op)
    /\ UNCHANGED <<unmarshal, round, batch, parserVars, emitterVars, written>>

\* Document.AddNode on the Document whose Nodes are batch.nodes.
AddNodeCall(n) ==
    /\ BuildReady
    /\ batch.nodes = <<>>
    /\ batch' = [batch EXCEPT !.nodes = Append(@, n)]
    /\ ret' = NoCall("AddNode")
    /\ UNCHANGED <<unmarshal, round, heap, parserVars, emitterVars, written>>

GetKVCall(n, name, fn) ==
    /\ BuildReady
    /\ ret' = Call("GetKV", n, StrKey(name), fn, NewNull, heap[n],
                   GetKV(heap, heap[n], name, fn))
    /\ UNCHANGED <<unmarshal, round, batch, heap, written, parserVars, emitterVars>>

\* The event source delivers a document of MaxNodes nodes at most.
BuildEvents ==
    (IF Len(heap) < MaxNodes THEN {StartNode("a", NoAnnot)} ELSE {}) \cup {EndNode, Eof}
BuildNodes == IF BuildReady THEN 1..Len(heap) ELSE {}

NextBuild ==
    \/ heap = <<>> /\ ParseDocumentBegin(BuildEvents)
    \/ AcceptStartNode(BuildEvents)
    \/ AcceptEndNode(BuildEvents)
    \/ AcceptEof(BuildEvents)
    \/ Len(heap) < MaxNodes /\ BuildReady /\ NewNodeCall("a")
    \/ \E n, child \in BuildNodes : AddChildCall(n, child)
    \/ \E n \in BuildNodes : Len(heap) < MaxNodes /\ NewChildCall(n, "a")
    \/ \E op \in {"AddKV", "NewKV"}, n \in BuildNodes :
            Len(heap) < MaxNodes /\ AddKVCall(op, n, "a", V1)
    \/ \E op \in {"AddChildren", "AddChildrenFunc"}, n \in BuildNodes,
          children \in SeqsUpTo(BuildNodes, MaxChildren) : AddChildrenCall(op, n, children)
    \/ \E n \in BuildNodes : AddNodeCall(n)
    \/ pstate # "doc" /\ Len(heap) = 1 /\ MarshalChildren
    \/ MarshalKDL
    \/ MarshalReturn

SpecBuild == InitParse /\ [][NextBuild]_vars

----------------------------------------------------------------------------
(* GetKV on a node whose children are made with NewChild, AddKV and NewKV. *)

KVNames == {"a", "b"}
KVExtractors == {"AsString", "AsInt64"}
KVRoot == IF heap = <<>> THEN {} ELSE {1}

NextKV ==
    \/ NewNodeFresh
    \/ \E n \in KVRoot, name \in KVNames : NewChildCall(n, name)
    \/ \E op \in {"AddKV", "NewKV"}, n \in KVRoot, name \in KVNames, v \in NodeValues :
            AddKVCall(op, n, name, v)
    \/ \E n \in KVRoot, name \in KVNames, fn \in KVExtractors : GetKVCall(n, name, fn)

SpecKV == InitParse /\ [][NextKV]_vars

\* The children of the node GetKV was called on that bear the name asked for,
\* by position, and the first of them.
Named ==
    {i \in 1..Len(ret.before.Children) : heap[ret.before.Children[i]].Name = ret.key.s}
FirstNamed == heap[ret.before.Children[CHOOSE i \in Named : \A j \in Named : i <= j]]

\* C17: GetKV returns a not-found error exactly when the node has no child of
\* that name; otherwise it returns the extractor's result on the first argument
\* of the first such child, and an error, never a read outside the arguments,
\* when that child has no arguments.
C17_GetKVReadsTheFirstNamedChild ==
    ret.op = "GetKV" =>
        /\ ~ret.panic
        /\ IsNotFound(ret.err) <=> Named = {}
        /\ Named # {} =>
              IF FirstNamed.Arguments = <<>> THEN ret.err # NoErr
              ELSE Return(ret.val, ret.err) = Apply(ret.fn, FirstNamed.Arguments[1])

\* The top-level nodes: those of a Document ParseDocument returned, and those
\* of the Document built with AddNode.
TopLevel ==
    {batch.nodes[i] : i \in 1..Len(batch.nodes)}
        \cup (IF ReturnedDocument THEN {result.doc[i] : i \in 1..Len(result.doc)} ELSE {})

\* C18: in every state the construction calls reach, each child of a node has
\* that node as its Parent, and each top-level node has no Parent.
C18_ParentIsTheInverseOfChildren ==
    BuildReady =>
        /\ \A n \in 1..Len(heap) : \A i \in 1..Len(heap[n].Children) :
                heap[heap[n].Children[i]].Parent = n
        /\ \A n \in TopLevel : heap[n].Parent = Nil

\* C19: EmitDocument leaves the tree as it found it: while it runs and after it
\* has returned, with or without an error, every node's property order is
\* still the keys in the order of their first write.
C19_EmitLeavesThePropertyOrder ==
    estate # "idle" => \A n \in 1..Len(heap) : heap[n].PropertyOrder = written[n].first

----------------------------------------------------------------------------
(* The EmitEmptyChildren hint: a node made with NewNode is given children, *)
(* an argument and a property, the hint is set on nodes, and it is emitted. *)

\* node.Hints.EmitEmptyChildren = true, assigned by the caller.
SetEmitEmptyChildren(n) ==
    /\ ApiReady
    /\ ~heap[n].EmitEmptyChildren
    /\ heap' = [heap EXCEPT ![n].EmitEmptyChildren = TRUE]
    /\ ret' = NoCall("Hints.EmitEmptyChildren")
    /\ UNCHANGED <<unmarshal, round, batch, parserVars, emitterVars, written>>

NextHint ==
    \/ NewNodeFresh
    \/ \E n \in KVRoot : NewChildCall(n, "a")
    \/ \E n \in KVRoot : AddKVCall("AddKV", n, "b", V1)
    \/ \E n \in KVRoot : "x" \notin DOMAIN heap[n].Properties /\ AddPropertyCall(n, "x", V1)
    \/ \E n \in 1..Len(heap) : SetEmitEmptyChildren(n)
    \/ EmitMade
    \/ EmitNode
    \/ EmitArg
    \/ EmitProperty
    \/ StartEmittingChildren
    \/ FinishEmittingChildren
    \/ EmitEnd

SpecHint == InitParse /\ [][NextHint]_vars

\* The node starts and the starts and ends of children blocks that the walk
\* owes the sink for a node: a block around its children, and an empty one
\* when it has none and its hint is set.
RECURSIVE BlocksOfNode(_, _), BlocksOfNodes(_, _)
BlocksOfNode(h, n) ==
    <<"kdl_emit_node">>
        \o (IF h[n].Children # <<>> \/ h[n].EmitEmptyChildren
               THEN <<"kdl_start_emitting_children">> \o BlocksOfNodes(h, h[n].Children)
                        \o <<"kdl_finish_emitting_children">>
               ELSE <<>>)

BlocksOfNodes(h, ns) ==
    IF ns = <<>> THEN <<>> ELSE BlocksOfNode(h, Head(ns)) \o BlocksOfNodes(h, Tail(ns))

\* The same, as the sink took them.
BlocksTaken ==
    LET kept == SelectSeq(sink, LAMBDA p :
                    p.op \in {"kdl_emit_node", "kdl_emit_node_with_type",
                              "kdl_start_emitting_children",
                              "kdl_finish_emitting_children"})
    IN [i \in 1..Len(kept) |->
            IF kept[i].op = "kdl_emit_node_with_type" THEN "kdl_emit_node" ELSE kept[i].op]

\* C20: a node without children gets a children-start and a children-end
\* exactly when its EmitEmptyChildren hint is set; a node with children always
\* gets a children-start before its first child and a children-end after its
\* last.
C20_EmptyChildrenFollowTheHint ==
    (estate = "done" /\ eresult = NoError) => BlocksTaken = BlocksOfNodes(heap, edoc)

\* C21: Get with an integer key returns a not-found error whenever the
\* arguments have no element at that index, above their end and below zero
\* alike, without reading outside them; inside them it returns the extractor's
\* result on that argument.
C21_GetReadsInsideTheArguments ==
    (ret.op = "Get" /\ ret.key.kind = "int") =>
        /\ ~ret.panic
        /\ IF ret.key.i < 0 \/ ret.key.i >= Len(ret.before.Arguments)
               THEN IsNotFound(ret.err)
               ELSE Return(ret.val, ret.err)
                        = Apply(ret.fn, ret.before.Arguments[ret.key.i + 1])

\* The nodes reached from the set ns through Children in k steps or fewer,
\* ns not included unless reached.
RECURSIVE Below(_, _, _)
Below(h, ns, k) ==
    LET kids == UNION {{h[n].Children[i] : i \in 1..Len(h[n].Children)} : n \in ns}
    IN IF k = 0 \/ kids = {} THEN {} ELSE kids \cup Below(h, kids, k - 1)

\* How many times node m stands among the children of the nodes of h.
RECURSIVE TimesAChild(_, _, _)
TimesAChild(h, m, n) ==
    IF n = 0 THEN 0
    ELSE Cardinality({i \in 1..Len(h[n].Children) : h[n].Children[i] = m})
            + TimesAChild(h, m, n - 1)

\* C22: after any sequence of construction calls the child relation is a
\* strict tree: no node is reached from itself through Children, and no node
\* is a child of two nodes or twice of one.
C22_ChildrenFormAStrictTree ==
    BuildReady =>
        \A n \in 1..Len(heap) :
            /\ n \notin Below(heap, {n}, Len(heap))
            /\ TimesAChild(heap, n, Len(heap)) <= 1

----------------------------------------------------------------------------
(* NewValue on Go values of every raw type it takes, through NewKV, and the *)
(* value read back with Get.                                               *)

\* a - b for digit strings, a >= b.
RECURSIVE SubFrom(_, _, _)
SubFrom(a, b, borrow) ==
    IF a = <<>> THEN <<>>
    ELSE LET x == a[Len(a)] - (IF b = <<>> THEN 0 ELSE b[Len(b)]) - borrow
         IN SubFrom(SubSeq(a, 1, Len(a) - 1),
                    IF b = <<>> THEN <<>> ELSE SubSeq(b, 1, Len(b) - 1),
                    IF x < 0 THEN 1 ELSE 0)
                \o <<IF x < 0 THEN x + 10 ELSE x>>

Pow2_64 == <<1, 8, 4, 4, 6, 7, 4, 4, 0, 7, 3, 7, 0, 9, 5, 5, 1, 6, 1, 6>>
MaxUint64Mag == Strip(SubFrom(Pow2_64, <<1>>, 0))

\* int64(v) of an unsigned 64-bit v: the same 64 bits read as two's complement.
int64(x) ==
    IF IsInt64(x) THEN x ELSE Num(TRUE, Strip(SubFrom(Pow2_64, x.mag, 0)), 0)

\* NewValue on a raw Go value.  (A Value handed in is handed back as it is.)
NewValue(raw) ==
    CASE raw.type = "string" -> NewString(raw.s)
      [] raw.type \in {"int", "int16", "int32", "int64", "uint16", "uint32"} ->
            NewInteger(raw.n)
      [] raw.type \in {"uint", "uint64"} -> NewInteger(int64(raw.n))
      [] raw.type \in {"float32", "float64"} -> NewFloat(raw.n)
      [] raw.type = "bool" -> NewBoolean(raw.b)
      [] raw.type = "*big.Int" -> NewBigInt(raw.n)
      [] raw.type = "*big.Float" -> NewBigFloat(raw.n)

\* NewKV(name, raw): NewNode(name).AddArgument(NewValue(raw)).  The call record
\* keeps the Go value handed in (val) and the Value made of it (value).
NewKVOf(name, raw) ==
    /\ ApiReady
    /\ Len(heap) < MaxNodes
    /\ heap' = Append(heap, AddArgument(NewNode(name), NewValue(raw)))
    /\ written' = Append(written, NoWrites)
    /\ ret' = Call("NewKV", Len(heap) + 1, IntKey(0), "", NewValue(raw),
                   NodeRec("", NoAnnot, Nil), Return(raw, NoErr))
    /\ UNCHANGED <<unmarshal, round, batch, parserVars, emitterVars>>

\* Go values at the edges of the integer types, and one of each other type.
RawValues ==
    {GoVal("uint64", "", Zero, FALSE),
     GoVal("uint64", "", IntNum(7), FALSE),
     GoVal("uint64", "", Num(FALSE, MaxInt64Mag, 0), FALSE),
     GoVal("uint64", "", Num(FALSE, MinInt64Mag, 0), FALSE),
     GoVal("uint64", "", Num(FALSE, MaxUint64Mag, 0), FALSE),
     GoVal("uint", "", Num(FALSE, MaxUint64Mag, 0), FALSE),
     GoVal("uint32", "", Num(FALSE, <<4, 2, 9, 4, 9, 6, 7, 2, 9, 5>>, 0), FALSE),
     GoVal("int64", "", Num(TRUE, MinInt64Mag, 0), FALSE),
     GoVal("*big.Int", "", Num(FALSE, MaxUint64Mag, 0), FALSE),
     GoVal("float64", "", Num(FALSE, <<1, 5>>, -1), FALSE),
     GoVal("string", "s", Zero, FALSE),
     GoVal("bool", "", Zero, TRUE)}

NextNewValue ==
    \/ \E raw \in RawValues : NewKVOf("a", raw)
    \/ \E n \in ApiNodes, fn \in ValueExtractors : GetCall(n, IntKey(0), fn)

SpecNewValue == InitParse /\ [][NextNewValue]_vars

\* C23: NewValue keeps an unsigned integer: read with AsBigInt the value made
\* of it is the input, read with AsInt64 it is the input when that fits, and
\* above the largest signed 64-bit integer the value is a BigInteger.
C23_NewValueKeepsUnsigned ==
    (ret.op = "NewKV" /\ ret.val.type \in {"uint", "uint16", "uint32", "uint64"}) =>
        /\ AsBigInt(ret.value) = Return(GoVal("*big.Int", "", ret.val.n, FALSE), NoErr)
        /\ IsInt64(ret.val.n) =>
                AsInt64(ret.value) = Return(GoVal("int64", "", ret.val.n, FALSE), NoErr)
        /\ ~IsInt64(ret.val.n) => ret.value.kind = "BigInt"

====
